---- MODULE Spec2Model ----
(***************************************************************************)
(* Model of the AGD-G chart pipeline (src/modal): the `samples` table in   *)
(* RDS, the S3 blob store, the ChartBench importer and the four stages     *)
(* preprocess_all, attack_all, explain_all, evaluate_all, each holding its *)
(* own database transaction (psycopg2, READ COMMITTED).                    *)
(***************************************************************************)
EXTENDS Integers, Sequences, FiniteSets, TLC

(***************************************************************************)
(* Bounds of the model.                                                    *)
(***************************************************************************)
\* number of stage runs that may be active at the same time
NSlots == 2
\* total number of stage runs started in one behaviour: when runs overlap
\* freely, and when each starts after the one before it has ended
MaxStarts == 3
MaxSeqStarts == 4
\* stand-in for BATCH_SIZE (100 in every stage and importer): a commit is
\* issued after every BatchSize processed items
BatchSize == 2
\* the positive row limit a limited run is given (max_rows), next to 0
RowLimit == 1
\* when a stage is rerun without end: no run starts once uuid4() has handed
\* out this many identifiers
MaxUuid == 6

(***************************************************************************)
(* Program constants (preprocess_charts.py, lines 26-29).                  *)
(***************************************************************************)
TARGET_SIZE == 512
PAD_COLOR == 255
WHITESPACE_CROP_THRESHOLD == 245
WHITESPACE_CROP_MIN_BORDER == 5
\* import_chartx.py: the only failure budget in the repository
MAX_FAILURES == 50

(***************************************************************************)
(* Nullable columns: NULL is the empty tuple, a set value v is <<v>>.      *)
(***************************************************************************)
Null == <<>>
Some(v) == <<v>>
IsNull(c) == c = Null
Val(c) == c[1]

Max(a, b) == IF a >= b THEN a ELSE b
Min(a, b) == IF a <= b THEN a ELSE b

(***************************************************************************)
(* Images.  An image is its mode, its size and the set of its regions that *)
(* are not opaque PAD_COLOR: each region is a box <<x0, y0, x1, y1>>       *)
(* (x1, y1 exclusive) of one channel value v and one alpha a.  Bytes that  *)
(* do not decode are the image with ok = FALSE.                            *)
(***************************************************************************)
Img(mode, w, h, px) == [ok |-> TRUE, mode |-> mode, w |-> w, h |-> h, px |-> px]
Corrupt == [ok |-> FALSE, mode |-> "", w |-> 0, h |-> 0, px |-> {}]
Region(box, v, a) == [box |-> box, v |-> v, a |-> a]

\* Python's round() on the exact quotient n / d: half to even
RoundDiv(n, d) ==
    LET q == n \div d
        r == n % d
    IN  IF 2 * r < d THEN q
        ELSE IF 2 * r > d THEN q + 1
        ELSE IF q % 2 = 0 THEN q ELSE q + 1

\* validate_image: Image.open + verify succeed
validate_image(bytes) == bytes.ok

\* variant of convert_to_rgb: img.convert("RGB") for every mode, the alpha band
\* dropped instead of composited
convert_to_rgb_DropAlpha(img) ==
    IF img.mode = "RGB" THEN img
    ELSE Img("RGB", img.w, img.h,
             {Region(p.box, p.v, 255) : p \in {q \in img.px : q.v # PAD_COLOR}})

\* convert_to_rgb: RGBA, P and LA are pasted onto a PAD_COLOR background with
\* the alpha band as mask (alpha 0 leaves the background, alpha 255 the
\* pixel); every other mode goes through img.convert("RGB"), which drops alpha
AlphaModes == {"RGBA", "P", "LA"}
convert_to_rgb(img) ==
    IF img.mode = "RGB" THEN img
    ELSE IF img.mode \in AlphaModes
         THEN Img("RGB", img.w, img.h,
                  {Region(p.box, p.v, 255) : p \in {q \in img.px : q.a = 255 /\ q.v # PAD_COLOR}})
         ELSE Img("RGB", img.w, img.h,
                  {Region(p.box, p.v, 255) : p \in {q \in img.px : q.v # PAD_COLOR}})

\* the pixels with a channel below the threshold
Below(img) == {p \in img.px : p.v < WHITESPACE_CROP_THRESHOLD}

MinOf(S) == CHOOSE x \in S : \A y \in S : x <= y
MaxOf(S) == CHOOSE x \in S : \A y \in S : x >= y

\* clip a region to a crop box and move it to the box's origin
ClipRegion(p, cb) ==
    Region(<<Max(p.box[1], cb[1]) - cb[1], Max(p.box[2], cb[2]) - cb[2],
             Min(p.box[3], cb[3]) - cb[1], Min(p.box[4], cb[4]) - cb[2]>>, p.v, p.a)

CropImg(img, cb) ==
    Img(img.mode, cb[3] - cb[1], cb[4] - cb[2],
        {q \in {ClipRegion(p, cb) : p \in img.px} : q.box[1] < q.box[3] /\ q.box[2] < q.box[4]})

\* variant of auto_crop_whitespace: no margin around the bounding box
auto_crop_whitespace_NoMargin(img) ==
    LET mask == Below(img)
    IN  IF mask = {} THEN <<img, <<0, 0, img.w, img.h>>>>
        ELSE LET crop_box == <<MinOf({p.box[1] : p \in mask}), MinOf({p.box[2] : p \in mask}),
                               MaxOf({p.box[3] : p \in mask}), MaxOf({p.box[4] : p \in mask})>>
             IN  <<CropImg(img, crop_box), crop_box>>

\* auto_crop_whitespace: <<cropped image, crop_box>>
auto_crop_whitespace(img) ==
    LET mask == Below(img)
    IN  IF mask = {} THEN <<img, <<0, 0, img.w, img.h>>>>
        ELSE LET rmin0 == MinOf({p.box[2] : p \in mask})
                 rmax0 == MaxOf({p.box[4] - 1 : p \in mask})
                 cmin0 == MinOf({p.box[1] : p \in mask})
                 cmax0 == MaxOf({p.box[3] - 1 : p \in mask})
                 margin == WHITESPACE_CROP_MIN_BORDER
                 rmin == Max(0, rmin0 - margin)
                 rmax == Min(img.h - 1, rmax0 + margin)
                 cmin == Max(0, cmin0 - margin)
                 cmax == Min(img.w - 1, cmax0 + margin)
                 crop_box == <<cmin, rmin, cmax + 1, rmax + 1>>
             IN  <<CropImg(img, crop_box), crop_box>>

\* the footprint of a region after resizing w x h to new_w x new_h and pasting
\* at (ox, oy)
ScaleRegion(p, w, h, new_w, new_h, ox, oy) ==
    Region(<<ox + (p.box[1] * new_w) \div w, oy + (p.box[2] * new_h) \div h,
             ox + (p.box[3] * new_w + w - 1) \div w, oy + (p.box[4] * new_h + h - 1) \div h>>,
           p.v, p.a)

\* variant of letterbox_resize: the resized image pasted at the top left
letterbox_resize_TopLeft(img, target_size) ==
    LET m == Max(img.w, img.h)
        new_w == RoundDiv(img.w * target_size, m)
        new_h == RoundDiv(img.h * target_size, m)
    IN  [st |-> IF new_w > 0 /\ new_h > 0 THEN "ok" ELSE "raise",
         img |-> Img("RGB", target_size, target_size,
                     {ScaleRegion(p, img.w, img.h, new_w, new_h, 0, 0) : p \in img.px}),
         meta |-> [scale |-> RoundDiv(target_size * 1000000, m),
                   offset_x |-> 0, offset_y |-> 0,
                   resized_w |-> new_w, resized_h |-> new_h]]

\* variant of letterbox_resize: both sides stretched to the target size
letterbox_resize_Stretch(img, target_size) ==
    [st |-> "ok",
     img |-> Img("RGB", target_size, target_size,
                 {ScaleRegion(p, img.w, img.h, target_size, target_size, 0, 0) : p \in img.px}),
     meta |-> [scale |-> RoundDiv(target_size * 1000000, Max(img.w, img.h)),
               offset_x |-> 0, offset_y |-> 0,
               resized_w |-> target_size, resized_h |-> target_size]]

\* letterbox_resize: [st, img, meta]; img.resize raises ValueError when a
\* side rounds to 0
letterbox_resize(img, target_size) ==
    LET m == Max(img.w, img.h)
        new_w == RoundDiv(img.w * target_size, m)
        new_h == RoundDiv(img.h * target_size, m)
        offset_x == (target_size - new_w) \div 2
        offset_y == (target_size - new_h) \div 2
    IN  [st |-> IF new_w > 0 /\ new_h > 0 THEN "ok" ELSE "raise",
         img |-> Img("RGB", target_size, target_size,
                     {ScaleRegion(p, img.w, img.h, new_w, new_h, offset_x, offset_y) : p \in img.px}),
         meta |-> [scale |-> RoundDiv(target_size * 1000000, m),
                   offset_x |-> offset_x, offset_y |-> offset_y,
                   resized_w |-> new_w, resized_h |-> new_h]]

NoMeta == [crop_box |-> <<0, 0, 0, 0>>, scale |-> 0, offset_x |-> 0, offset_y |-> 0,
           resized_w |-> 0, resized_h |-> 0, target_size |-> 0]

\* variant of preprocess_single: validation failure raises instead of
\* returning None
preprocess_single_Strict(img_bytes) ==
    IF ~validate_image(img_bytes)
    THEN [st |-> "raise", image_bytes |-> Corrupt, original_width |-> 0,
          original_height |-> 0, meta |-> NoMeta]
    ELSE LET img == convert_to_rgb(img_bytes)
             cr == auto_crop_whitespace(img)
             lb == letterbox_resize(cr[1], TARGET_SIZE)
         IN  [st |-> lb.st,
              image_bytes |-> lb.img,
              original_width |-> img.w,
              original_height |-> img.h,
              meta |-> [crop_box |-> cr[2], scale |-> lb.meta.scale,
                        offset_x |-> lb.meta.offset_x, offset_y |-> lb.meta.offset_y,
                        resized_w |-> lb.meta.resized_w, resized_h |-> lb.meta.resized_h,
                        target_size |-> TARGET_SIZE]]

\* preprocess_single: st = "none" is the None result, "raise" an exception
\* escaping the function, "ok" the result dictionary
preprocess_single(img_bytes) ==
    IF ~validate_image(img_bytes)
    THEN [st |-> "none", image_bytes |-> Corrupt, original_width |-> 0,
          original_height |-> 0, meta |-> NoMeta]
    ELSE LET img == convert_to_rgb(img_bytes)
             cr == auto_crop_whitespace(img)
             lb == letterbox_resize(cr[1], TARGET_SIZE)
         IN  [st |-> lb.st,
              image_bytes |-> lb.img,
              original_width |-> img.w,
              original_height |-> img.h,
              meta |-> [crop_box |-> cr[2], scale |-> lb.meta.scale,
                        offset_x |-> lb.meta.offset_x, offset_y |-> lb.meta.offset_y,
                        resized_w |-> lb.meta.resized_w, resized_h |-> lb.meta.resized_h,
                        target_size |-> TARGET_SIZE]]

(***************************************************************************)
(* The ChartBench dataset on the importer's disk: each dataset row names   *)
(* an image path; a path's file is an image, corrupt bytes, or absent.     *)
(***************************************************************************)
VARIABLE probe   \* the image file the dataset of a geometry run refers to

FileExists(p) == p # "d"
FileOf(p) ==
    CASE p = "a" -> Img("RGB", 3, 2, {Region(<<1, 0, 2, 1>>, 0, 255)})
      [] p = "b" -> Img("RGBA", 1, 1, {Region(<<0, 0, 1, 1>>, 0, 0)})
      [] p = "e" -> Img("RGB", 1, 1025, {})
      [] p = "p" -> probe
      [] OTHER   -> Corrupt
Datasets ==
    { <<"a", "a", "b">>, <<"a", "b", "a">>, <<"a", "c", "b">>, <<"c", "d", "c">>, <<"a", "e">>,
      <<"c", "e">> }
\* the dataset of a geometry run: one row, of the probe image
ProbeDatasets == { <<"p">> }
\* row["type"]["chart"] of the dataset rows that name the path
ChartOf(p) ==
    CASE p = "a" -> "bar"
      [] p = "b" -> "violin"
      [] p = "c" -> "node_link"
      [] p = "e" -> "3D-Bar"
      [] p = "p" -> "line"
      [] OTHER   -> "combination"

(***************************************************************************)
(* config.py: GraphType, and the importers' maps of their datasets' chart  *)
(* types to it.                                                            *)
(***************************************************************************)
GraphType ==
    {"THREE_D", "AREA", "BAR", "BOX", "CANDLE", "HEATMAP", "LINE", "NODE", "OTHER",
     "PIE", "RADAR", "SCATTER", "TREEMAP"}

\* dict.get(key, default)
Get(dict, key, default) == IF key \in DOMAIN dict THEN dict[key] ELSE default

CHARTBENCH_TYPE_MAP ==
    ("area" :> "AREA") @@ ("bar" :> "BAR") @@ ("box" :> "BOX") @@ ("combination" :> "OTHER")
    @@ ("line" :> "LINE") @@ ("node_link" :> "NODE") @@ ("pie" :> "PIE")
    @@ ("radar" :> "RADAR") @@ ("scatter" :> "SCATTER")

\* variant of chartbench_graph_type: an unlisted chart type is left as None
chartbench_graph_type_None(chart_type_raw) == Get(CHARTBENCH_TYPE_MAP, chart_type_raw, "None")

\* import_chartbench: CHARTBENCH_TYPE_MAP.get(chart_type_raw), OTHER when None
chartbench_graph_type(chart_type_raw) ==
    LET graph_type == Get(CHARTBENCH_TYPE_MAP, chart_type_raw, "None")
    IN  IF graph_type = "None" THEN "OTHER" ELSE graph_type

CHART_TYPE_TO_GRAPH_TYPE ==
    ("3D-Bar" :> "THREE_D") @@ ("bar_chart_num" :> "BAR") @@ ("bar_chart" :> "BAR")
    @@ ("histogram" :> "BAR") @@ ("candlestick" :> "CANDLE") @@ ("multi-axes" :> "OTHER")
    @@ ("rings" :> "PIE") @@ ("area_chart" :> "AREA") @@ ("box" :> "BOX")
    @@ ("funnel" :> "BAR") @@ ("line_chart" :> "LINE") @@ ("line_chart_num" :> "LINE")
    @@ ("pie_chart" :> "PIE") @@ ("rose" :> "RADAR") @@ ("bubble" :> "SCATTER")
    @@ ("heatmap" :> "HEATMAP") @@ ("radar" :> "RADAR") @@ ("treemap" :> "TREEMAP")

chart_type_to_graph_type(chart_type) == Get(CHART_TYPE_TO_GRAPH_TYPE, chart_type, "OTHER")

\* import_chartqax
map_graph_type(graph_type) ==
    LET mapping == ("two_col" :> "BAR") @@ ("multi_col" :> "BAR")
    IN  Get(mapping, graph_type, "OTHER")

Stages == {"preprocess", "attack", "explain", "evaluate"}

VARIABLES
    table,      \* samples: the committed rows, id -> row
    blobs,      \* the S3 bucket: uuid -> bytes
    nextUuid,   \* uuid4(): the next identifier put_image generates
    nextId,     \* the SERIAL sequence of samples.id
    imp,        \* the run of import_chartbench
    run,        \* the stage runs, one per slot
    starts,     \* stage runs started so far
    wiped,      \* wipe_s3 has run
    last,       \* history: the stage run that completed just before now
    overwrote,  \* history: the columns an UPDATE wrote while they were set
    mode,       \* how the operator schedules the processes: "free", "seq", "race", ...
    orch,       \* the run of main.py
    cx,         \* the run of import_chartx
    qx          \* the run of import_chartqax

vars == <<cx, qx, orch, probe, mode, table, blobs, nextUuid, nextId, imp, run, starts, wiped, last, overwrote>>

Slots == 1..NSlots

\* a row as add_sample_row / INSERT_SQL create it
NewRow(source, graph_type, raw, ow, oh, q, ans) ==
    [source |-> source, graph_type |-> graph_type, raw |-> raw, original_width |-> ow, original_height |-> oh,
     good_graph |-> Null, preprocess_meta |-> Null, hidden_answer |-> Null,
     adversarial_graph |-> Null, output_answer |-> Null, attack_succeeded |-> Null,
     question |-> q, good_answer |-> ans]

Empty == <<>>

IdleImp ==
    [pc |-> "idle", sized |-> FALSE, ds |-> <<>>, i |-> 1,
     uploaded |-> [p \in {"a", "b", "c", "d", "e", "p"} |-> Null],
     pend |-> Empty, inserted |-> 0, skipped |-> 0]

NoLast == [stage |-> "none", trunc |-> FALSE]

IdleRun ==
    [pc |-> "idle", stage |-> "none", max_rows |-> 0, items |-> <<>>, i |-> 1,
     n |-> 0, rows_updated |-> 0, skipped |-> 0, succeeded |-> 0, failed |-> 0,
     tx |-> Empty, made |-> Empty, prev |-> NoLast, trunc |-> FALSE, err |-> "",
     unc |-> 0, lost |-> 0, seen |-> <<>>, report |-> Null]

\* main.py: IMPORTERS, and the steps main can execute
IMPORTERS == <<"ChartBench", "ChartX", "ChartQA-X">>
Steps == {"clean", "ChartBench", "ChartX", "ChartQA-X", "preprocess"}

\* main.py before it is started: results is the dictionary of the same
\* name as its items in insertion order, codes the <<step, return code>> of
\* every subprocess that has exited, spawned the importers started, summary
\* what the summary lists, exit the exit status
IdleOrch ==
    [pc |-> "idle", clean |-> FALSE, skip_import |-> FALSE, skip_preprocess |-> FALSE,
     results |-> <<>>, codes |-> {}, spawned |-> {}, waited |-> 0,
     summary |-> Null, exit |-> Null]

\* the image files a geometry run draws its dataset's file from: sides around
\* TARGET_SIZE and its double, blank, with one dark pixel in a corner, or with
\* a dark pixel in the middle and a pale one in a corner
ProbeSides == {1, 2, 3, 7, 511, 512, 513, 1024, 1025, 2000}
ProbeImages ==
    UNION {{Img("RGB", w, h, {}),
            Img("RGB", w, h, {Region(<<0, 0, 1, 1>>, 0, 255)}),
            Img("RGB", w, h, {Region(<<w - 1, h - 1, w, h>>, 0, 255)}),
            Img("RGB", w, h, {Region(<<0, 0, 1, 1>>, WHITESPACE_CROP_THRESHOLD, 255),
                              Region(<<w \div 2, h \div 2, (w \div 2) + 1, (h \div 2) + 1>>,
                                     WHITESPACE_CROP_THRESHOLD - 1, 255)})} :
           <<w, h>> \in ProbeSides \X ProbeSides}

\* import_chartx before it is started: rows is the number of rows of the
\* dataset over all splits and kind says which of them are unreadable,
\* chart_type and graph_type are the local variables of those names
IdleCx ==
    [pc |-> "idle", rows |-> 0, kind |-> "none", max_rows |-> Null, i |-> 1, failures |-> 0,
     processed |-> 0, chart_type |-> Null, graph_type |-> Null, err |-> ""]

\* import_chartqax before it is started
IdleQx ==
    [pc |-> "idle", rows |-> 0, max_rows |-> Null, i |-> 1, num_imported |-> 0,
     chart_type |-> Null, graph_type |-> Null, pend |-> Empty, err |-> ""]

\* create_table_if_not_exists on an empty bucket
Created ==
    /\ orch = IdleOrch
    /\ cx = IdleCx
    /\ qx = IdleQx
    /\ probe = Corrupt
    /\ table = Empty
    /\ blobs = Empty
    /\ nextUuid = 1
    /\ nextId = 1
    /\ imp = IdleImp
    /\ run = [r \in Slots |-> IdleRun]
    /\ starts = 0
    /\ wiped = FALSE
    /\ last = NoLast
    /\ overwrote = {}

(***************************************************************************)
(* Scheduling.  Every stage and the importer is a script the operator      *)
(* starts: "free" lets them overlap in any way; "seq" starts each after    *)
(* the one before it has ended; "race" is "seq" except that a run of a     *)
(* stage may start while runs of the same stage are in progress; "pair" is *)
(* "seq" except that an explanation run may overlap a perturbation or an   *)
(* evaluation run.                                                         *)
(***************************************************************************)
\* the pairs of stages that write different columns and do not read each
\* other's
Independent == {{"explain", "attack"}, {"explain", "evaluate"}}

\* nothing is running
Quiet ==
    /\ imp.pc # "loop" /\ cx.pc # "loop" /\ qx.pc # "loop"
    /\ \A r \in ( 1..NSlots ) : run[r].pc # "loop"

Admitted(stage) ==
    /\ IF mode = "rerun" THEN nextUuid <= MaxUuid
       ELSE starts < (IF mode = "free" THEN MaxStarts ELSE MaxSeqStarts)
    /\ \/ mode = "free"
       \/ Quiet
       \/ /\ mode = "race"
          /\ imp.pc # "loop"
          /\ \A r \in ( 1..NSlots ) : run[r].pc = "loop" => run[r].stage = stage
       \/ /\ mode = "pair"
          /\ imp.pc # "loop"
          /\ \A r \in ( 1..NSlots ) :
                run[r].pc = "loop" => {run[r].stage, stage} \in Independent

(***************************************************************************)
(* aws.py                                                                  *)
(***************************************************************************)
\* variant of put_image: the object is stored under the lowest key in use
put_image_Reuse(store, key, bytes) ==
    LET k == CHOOSE x \in DOMAIN store \cup {key} : \A y \in DOMAIN store \cup {key} : x <= y
    IN  (k :> bytes) @@ store

\* put_image: the bucket after storing the bytes under the key uuid4() gave
put_image(store, key, bytes) == (key :> bytes) @@ store

\* get_image raises KeyError when the key is absent
HasImage(key) == key \in DOMAIN blobs

\* get_db_connection's commit: the transaction's row versions become the table
Commit(tbl, tx) == tx @@ tbl

\* wipe_s3: every object under the prefix is deleted
wipe_s3 ==
    /\ mode = "free" \/ Quiet
    /\ ~wiped
    /\ wiped' = TRUE
    /\ blobs' = Empty
    /\ last' = NoLast
    /\ UNCHANGED <<cx, qx, orch, probe, mode, table, nextUuid, nextId, imp, run, starts, overwrote>>

(***************************************************************************)
(* import_chartbench: data_pipeline/chartbench_pipeline.py, and the older  *)
(* modal/chartbench_pipeline.py (sized = TRUE), which also records the     *)
(* image's width and height at ingestion.                                  *)
(***************************************************************************)
ImportStart(ds, sized) ==
    /\ imp.pc = "idle"
    /\ mode = "free" \/ Quiet
    /\ imp' = [IdleImp EXCEPT !.pc = "loop", !.ds = ds, !.sized = sized]
    /\ last' = NoLast
    /\ UNCHANGED <<cx, qx, orch, probe, mode, table, blobs, nextUuid, nextId, run, starts, wiped, overwrote>>

\* variant of AlreadyUploaded: the uploaded dictionary is never consulted
AlreadyUploaded_Never(uploaded, img_path) == FALSE

\* img_path in uploaded
AlreadyUploaded(uploaded, img_path) == ~IsNull(uploaded[img_path])

\* one iteration of the loop over the dataset
ImportRow ==
    /\ imp.pc = "loop"
    /\ imp.i <= Len(imp.ds)
    /\ LET p == imp.ds[imp.i]
           known == AlreadyUploaded(imp.uploaded, p)
           img == FileOf(p)
       IN  IF ~known /\ ~FileExists(p)
           THEN \* Missing: skipped += 1; continue
                /\ imp' = [imp EXCEPT !.i = @ + 1, !.skipped = @ + 1]
                /\ UNCHANGED <<cx, qx, orch, probe, mode, table, blobs, nextUuid, nextId>>
           ELSE IF ~known /\ imp.sized /\ ~img.ok
           THEN \* Image.open(local_src) raises: the connection closes uncommitted
                /\ imp' = [imp EXCEPT !.pc = "failed", !.pend = Empty]
                /\ UNCHANGED <<cx, qx, orch, probe, mode, table, blobs, nextUuid, nextId>>
           ELSE LET entry == IF known THEN Val(imp.uploaded[p])
                             ELSE IF imp.sized THEN <<nextUuid, Some(img.w), Some(img.h)>>
                             ELSE <<nextUuid, Null, Null>>
                    graph_type == chartbench_graph_type(ChartOf(p))
                    row == NewRow("ChartBench", graph_type, entry[1], entry[2], entry[3],
                                  imp.i, "Yes")
                    pend == (nextId :> row) @@ imp.pend
                    inserted == imp.inserted + 1
                    commit == inserted % BatchSize = 0
                IN  /\ blobs' = IF known THEN blobs ELSE put_image(blobs, nextUuid, img)
                    /\ nextUuid' = IF known THEN nextUuid ELSE nextUuid + 1
                    /\ nextId' = nextId + 1
                    /\ table' = IF commit THEN Commit(table, pend) ELSE table
                    /\ imp' = [imp EXCEPT !.i = @ + 1, !.inserted = inserted,
                                          !.uploaded[p] = Some(entry),
                                          !.pend = IF commit THEN Empty ELSE pend]
    /\ last' = NoLast
    /\ UNCHANGED <<cx, qx, orch, probe, mode, run, starts, wiped, overwrote>>

\* the with block exits: commit
ImportFinish ==
    /\ imp.pc = "loop"
    /\ imp.i > Len(imp.ds)
    /\ table' = Commit(table, imp.pend)
    /\ imp' = [imp EXCEPT !.pc = "done", !.pend = Empty]
    /\ last' = NoLast
    /\ UNCHANGED <<cx, qx, orch, probe, mode, blobs, nextUuid, nextId, run, starts, wiped, overwrote>>

(***************************************************************************)
(* import_chartx and import_chartqax (data_pipeline).                      *)
(***************************************************************************)
\* the functions aws.py defines
AwsFunctions ==
    {"get_db_connection", "put_image", "get_image", "create_table_if_not_exists",
     "add_sample_row", "wipe_rds", "wipe_s3"}

\* the ChartX datasets tried: their sizes, which rows lack a key or an image
\* file that opens ("none", "odd": the rows of odd index, "all"), the chart
\* type of the i-th row, and the image of a row; the limits given
ChartXSizes == {0, 2, MAX_FAILURES - 1, MAX_FAILURES, MAX_FAILURES + 1}
ChartXKinds == {"none", "odd", "all"}
ChartXTypes == <<"bar_chart", "violin", "3D-Bar", "bar">>
ChartXType(i) == ChartXTypes[(i % Len(ChartXTypes)) + 1]
Readable(kind, i) == kind = "none" \/ (kind = "odd" /\ i % 2 = 0)
RowImage == Img("RGB", 3, 2, {Region(<<1, 0, 2, 1>>, 0, 255)})
MaxRowsArgs == {Null, Some(1)}

ChartXStart(rows, kind, max_rows) ==
    /\ mode = "ingest"
    /\ cx.pc = "idle"
    /\ Quiet
    /\ cx' = [IdleCx EXCEPT !.pc = "loop", !.rows = rows, !.kind = kind,
                            !.max_rows = max_rows]
    /\ UNCHANGED <<qx, orch, probe, mode, table, blobs, nextUuid, nextId, imp, run, starts,
                   wiped, last, overwrote>>

\* except Exception: failures += 1, and break at the budget
ChartXFailed(me) ==
    LET failures == me.failures + 1
    IN  [me EXCEPT !.failures = failures,
                   !.i = IF failures >= MAX_FAILURES THEN me.rows + 1 ELSE me.i + 1]

\* one iteration of the loop over the rows
ChartXRow ==
    /\ cx.pc = "loop"
    /\ cx.i <= cx.rows
    /\ IF cx.failures >= MAX_FAILURES
       THEN /\ cx' = [cx EXCEPT !.i = cx.rows + 1]
            /\ UNCHANGED <<table, blobs, nextUuid, nextId>>
       ELSE IF ~Readable(cx.kind, cx.i)
       THEN /\ cx' = ChartXFailed(cx)
            /\ UNCHANGED <<table, blobs, nextUuid, nextId>>
       ELSE LET uuid == nextUuid
                chart_type == ChartXType(cx.i)
                graph_type == chart_type_to_graph_type(chart_type)
                me == [cx EXCEPT !.chart_type = Some(chart_type),
                                 !.graph_type = Some(graph_type)]
            IN  /\ blobs' = put_image(blobs, uuid, RowImage)
                /\ nextUuid' = nextUuid + 1
                /\ IF "add_sample" \notin AwsFunctions
                   THEN \* AttributeError, caught as a failure of the row
                        /\ cx' = ChartXFailed(me)
                        /\ UNCHANGED <<table, nextId>>
                   ELSE LET processed == me.processed + 1
                        IN  \* conn.commit() after every row
                            /\ table' = (nextId :> NewRow("ChartX", graph_type, uuid, Null, Null,
                                                          cx.i, "Yes")) @@ table
                            /\ nextId' = nextId + 1
                            /\ cx' = [me EXCEPT !.processed = processed, !.i = @ + 1,
                                                !.pc = IF ~IsNull(me.max_rows)
                                                          /\ processed >= Val(me.max_rows)
                                                       THEN "done" ELSE "loop"]
    /\ UNCHANGED <<qx, orch, probe, mode, imp, run, starts, wiped, last, overwrote>>

\* after the loops: RuntimeError when the budget is used up
ChartXEnd ==
    /\ cx.pc = "loop"
    /\ cx.i > cx.rows
    /\ cx' = IF cx.failures >= MAX_FAILURES
             THEN [cx EXCEPT !.pc = "failed", !.err = "RuntimeError"]
             ELSE [cx EXCEPT !.pc = "done"]
    /\ UNCHANGED <<qx, orch, probe, mode, table, blobs, nextUuid, nextId, imp, run, starts,
                   wiped, last, overwrote>>

\* the sizes of the ChartQA-X datasets tried and the chart types of the rows
ChartQAXSizes == {0, 1, 2}
ChartQAXTypes == {"two_col", "two_col_12", "v_bar_3", "h_bar"}

\* re.sub(r'_[0-9]+', '', graph_type)
StripIndex(graph_type) ==
    CASE graph_type = "two_col_12" -> "two_col"
      [] graph_type = "v_bar_3"    -> "v_bar"
      [] OTHER                     -> graph_type

ChartQAXStart(rows, max_rows) ==
    /\ mode = "ingest"
    /\ qx.pc = "idle"
    /\ Quiet
    /\ qx' = [IdleQx EXCEPT !.pc = "loop", !.rows = rows, !.max_rows = max_rows]
    /\ UNCHANGED <<cx, orch, probe, mode, table, blobs, nextUuid, nextId, imp, run, starts,
                   wiped, last, overwrote>>

\* one iteration of import_dataset's loop: has_image says whether get_image
\* finds the row's image
ChartQAXRow(chart_type, has_image) ==
    /\ qx.pc = "loop"
    /\ qx.i <= qx.rows
    /\ IF ~has_image
       THEN \* ValueError: "Skipping row"; continue
            /\ qx' = [qx EXCEPT !.i = @ + 1]
            /\ UNCHANGED <<table, blobs, nextUuid, nextId>>
       ELSE LET graph_type == map_graph_type(StripIndex(chart_type))
                image_key == nextUuid
                me == [qx EXCEPT !.chart_type = Some(chart_type),
                                 !.graph_type = Some(graph_type)]
            IN  /\ blobs' = put_image(blobs, image_key, RowImage)
                /\ nextUuid' = nextUuid + 1
                /\ IF "add_sample" \notin AwsFunctions
                   THEN \* AttributeError leaves main: the connection closes uncommitted
                        /\ qx' = [me EXCEPT !.pc = "failed", !.err = "AttributeError",
                                            !.pend = Empty]
                        /\ UNCHANGED <<table, nextId>>
                   ELSE LET pend == (nextId :> NewRow("ChartQA-X", graph_type, image_key,
                                                      Null, Null, qx.i, "Yes")) @@ me.pend
                            num_imported == me.num_imported + 1
                            return == ~IsNull(me.max_rows) /\ num_imported >= Val(me.max_rows)
                        IN  /\ nextId' = nextId + 1
                            /\ table' = IF return THEN Commit(table, pend) ELSE table
                            /\ qx' = [me EXCEPT !.num_imported = num_imported, !.i = @ + 1,
                                                !.pend = IF return THEN Empty ELSE pend,
                                                !.pc = IF return THEN "done" ELSE "loop"]
    /\ UNCHANGED <<cx, orch, probe, mode, imp, run, starts, wiped, last, overwrote>>

\* the loop is over: the with block exits (commit)
ChartQAXEnd ==
    /\ qx.pc = "loop"
    /\ qx.i > qx.rows
    /\ table' = Commit(table, qx.pend)
    /\ qx' = [qx EXCEPT !.pc = "done", !.pend = Empty]
    /\ UNCHANGED <<cx, orch, probe, mode, blobs, nextUuid, nextId, imp, run, starts,
                   wiped, last, overwrote>>

(***************************************************************************)
(* Transactions.  A run's UPDATEs stay in its transaction tx (id -> new    *)
(* row version) until it commits; the run reads the committed rows and its *)
(* own versions.  An UPDATE of a row another open transaction has updated  *)
(* waits for that transaction to end (row lock).                           *)
(***************************************************************************)
View(r) == run[r].tx @@ table

Locked(r, ids) ==
    \E o \in Slots \ {r} : run[o].pc = "loop" /\ ids \cap DOMAIN run[o].tx # {}

Card(S) == Cardinality(S)

\* the ascending sequence of a finite set of integers (ORDER BY)
RECURSIVE SortedSeq(_)
SortedSeq(S) == IF S = {} THEN <<>> ELSE <<MinOf(S)>> \o SortedSeq(S \ {MinOf(S)})

\* every order of a finite set (a SELECT without ORDER BY)
Orders(S) == {s \in [1..Card(S) -> S] : \A i, j \in 1..Card(S) : s[i] = s[j] => i = j}

\* LIMIT max_rows, when max_rows > 0
Limit(s, max_rows) == IF max_rows > 0 /\ Len(s) > max_rows THEN SubSeq(s, 1, max_rows) ELSE s

\* the count of started runs, kept where the number of runs is bounded
Started == IF mode = "rerun" THEN starts ELSE starts + 1

\* a run starts in the lowest free slot
Free(r, stage) ==
    /\ Admitted(stage)
    /\ run[r].pc # "loop"
    /\ \A o \in Slots : o < r => run[o].pc = "loop"

\* variant of Report: rows_updated reports the number of images processed
Report_ImagesAsRows(rec) ==
    [processed |-> rec.n, rows_updated |-> rec.n, skipped |-> rec.skipped,
     succeeded |-> rec.succeeded, failed |-> rec.failed]

\* the dictionary of counters a stage returns to its caller
Report(rec) ==
    [processed |-> rec.n, rows_updated |-> rec.rows_updated, skipped |-> rec.skipped,
     succeeded |-> rec.succeeded, failed |-> rec.failed]

\* the function returns / the with block exits without an exception
Returned(rec) ==
    [rec EXCEPT !.pc = "done", !.tx = Empty, !.unc = 0, !.report = Some(Report(rec))]
\* variant of Raised: the error is counted as a skipped item and the loop goes on
Raised_Skipped(rec, e) ==
    [rec EXCEPT !.err = e, !.skipped = @ + 1, !.i = @ + 1]

\* an exception leaves the with block: close() without commit; the updates
\* since the last commit are rolled back and the return statement is not reached
Raised(rec, e) ==
    [rec EXCEPT !.pc = "failed", !.tx = Empty, !.err = e, !.lost = rec.unc, !.unc = 0]

\* variant of AtBatchBoundary: no commit inside the loop
AtBatchBoundary_Never(n) == FALSE

\* processed_count % BATCH_SIZE == 0
AtBatchBoundary(n) == n % BatchSize = 0

Began(stage, max_rows, items, trunc) ==
    [IdleRun EXCEPT !.pc = IF items = <<>> THEN "done" ELSE "loop",
                    !.stage = stage, !.max_rows = max_rows, !.items = items,
                    !.prev = last, !.trunc = trunc,
                    !.report = IF items = <<>> THEN Some(Report(IdleRun)) ELSE Null]

LastOf(rec) == IF rec.pc = "done" THEN [stage |-> rec.stage, trunc |-> rec.trunc] ELSE NoLast

\* the columns among cols that are set in some row of rows
SetCols(rows, cols) == {c \in cols : \E row \in rows : ~IsNull(row[c])}

(***************************************************************************)
(* preprocess_all (data_pipeline/preprocess_charts.py)                     *)
(***************************************************************************)
\* SELECT DISTINCT raw_graph FROM samples WHERE good_graph IS NULL
PreprocessKeys == {table[id].raw : id \in {i \in DOMAIN table : IsNull(table[i].good_graph)}}

PreprocessSelect(r) ==
    /\ Free(r, "preprocess")
    /\ \E items \in Orders(PreprocessKeys) :
         /\ run' = [run EXCEPT ![r] = Began("preprocess", 0, items, FALSE)]
         /\ last' = LastOf(run'[r])
    /\ starts' = Started
    /\ UNCHANGED <<cx, qx, orch, probe, mode, table, blobs, nextUuid, nextId, imp, wiped, overwrote>>

\* variant of PreprocessTargets: UPDATE ... WHERE good_graph IS NULL
PreprocessTargets_AnyRaw(r, raw_uuid) ==
    {id \in DOMAIN table : IsNull(View(r)[id].good_graph)}

\* UPDATE ... WHERE raw_graph = %s AND good_graph IS NULL
PreprocessTargets(r, raw_uuid) ==
    {id \in DOMAIN table : View(r)[id].raw = raw_uuid /\ IsNull(View(r)[id].good_graph)}

\* variant of PreprocessUpdate: the resized extent recorded as the original one
PreprocessUpdate_Resized(row, processed_uuid, result) ==
    [row EXCEPT !.good_graph = Some(processed_uuid),
                !.preprocess_meta = Some(result.meta),
                !.original_width = Some(result.meta.resized_w),
                !.original_height = Some(result.meta.resized_h)]

\* variant of PreprocessUpdate: preprocess_meta is left out of the SET list
PreprocessUpdate_NoMeta(row, processed_uuid, result) ==
    [row EXCEPT !.good_graph = Some(processed_uuid),
                !.original_width = Some(result.original_width),
                !.original_height = Some(result.original_height)]

\* variant of PreprocessUpdate: the UPDATE also rewrites question
PreprocessUpdate_Question(row, processed_uuid, result) ==
    [row EXCEPT !.good_graph = Some(processed_uuid),
                !.preprocess_meta = Some(result.meta),
                !.original_width = Some(result.original_width),
                !.original_height = Some(result.original_height),
                !.question = 0]

PreprocessUpdate(row, processed_uuid, result) ==
    [row EXCEPT !.good_graph = Some(processed_uuid),
                !.preprocess_meta = Some(result.meta),
                !.original_width = Some(result.original_width),
                !.original_height = Some(result.original_height)]

\* one iteration of the loop over raw_uuids
PreprocessItem(r) ==
    /\ run[r].pc = "loop"
    /\ run[r].stage = "preprocess"
    /\ run[r].i <= Len(run[r].items)
    /\ LET me == run[r]
           raw_uuid == me.items[me.i]
           result == preprocess_single(blobs[raw_uuid])
       IN  IF ~HasImage(raw_uuid) \/ result.st = "none"
           THEN \* KeyError, or a corrupt image: skipped_count += 1; continue
                /\ run' = [run EXCEPT ![r] = [me EXCEPT !.i = @ + 1, !.skipped = @ + 1,
                                                        !.seen = Append(@, raw_uuid)]]
                /\ last' = NoLast
                /\ UNCHANGED <<cx, qx, orch, probe, mode, table, blobs, nextUuid, overwrote>>
           ELSE IF result.st = "raise"
           THEN /\ run' = [run EXCEPT ![r] = Raised([me EXCEPT !.seen = Append(@, raw_uuid)], "ValueError")]
                /\ last' = NoLast
                /\ UNCHANGED <<cx, qx, orch, probe, mode, table, blobs, nextUuid, overwrote>>
           ELSE LET processed_uuid == nextUuid
                    ids == PreprocessTargets(r, raw_uuid)
                    tx == [id \in ids |-> PreprocessUpdate(View(r)[id], processed_uuid, result)] @@ me.tx
                    n == me.n + 1
                    commit == AtBatchBoundary(n)
                IN  /\ ~Locked(r, ids)
                    /\ blobs' = put_image(blobs, processed_uuid, result.image_bytes)
                    /\ nextUuid' = nextUuid + 1
                    /\ table' = IF commit THEN Commit(table, tx) ELSE table
                    /\ overwrote' = overwrote \cup
                         SetCols({View(r)[id] : id \in ids},
                                 {"good_graph", "preprocess_meta", "original_width", "original_height"})
                    /\ run' = [run EXCEPT ![r] =
                                 [me EXCEPT !.i = @ + 1, !.n = n,
                                            !.seen = Append(@, me.items[me.i]),
                                            !.rows_updated = @ + Card(ids),
                                            !.tx = IF commit THEN Empty ELSE tx,
                                            !.unc = IF commit THEN 0 ELSE @ + 1,
                                            !.made = (raw_uuid :> [ref |-> processed_uuid,
                                                                   meta |-> result.meta,
                                                                   ow |-> result.original_width,
                                                                   oh |-> result.original_height]) @@ @]]
                    /\ last' = NoLast
    /\ UNCHANGED <<cx, qx, orch, probe, mode, nextId, imp, starts, wiped>>

(***************************************************************************)
(* attack_all (data_pipeline/agd.py)                                       *)
(***************************************************************************)
\* SELECT DISTINCT good_graph ... WHERE good_graph IS NOT NULL
\*   AND adversarial_graph IS NULL ORDER BY good_graph
AttackKeys ==
    {Val(table[id].good_graph) :
        id \in {i \in DOMAIN table : ~IsNull(table[i].good_graph) /\ IsNull(table[i].adversarial_graph)}}

AttackSelect(r, max_rows) ==
    /\ Free(r, "attack")
    /\ run' = [run EXCEPT ![r] = Began("attack", max_rows, Limit(SortedSeq(AttackKeys), max_rows),
                                       max_rows > 0 /\ Card(AttackKeys) > max_rows)]
    /\ last' = LastOf(run'[r])
    /\ starts' = Started
    /\ UNCHANGED <<cx, qx, orch, probe, mode, table, blobs, nextUuid, nextId, imp, wiped, overwrote>>

\* variant of AttackTargets: UPDATE ... WHERE adversarial_graph IS NULL
AttackTargets_AnyGood(r, good_uuid) ==
    {id \in DOMAIN table : IsNull(View(r)[id].adversarial_graph)}

\* UPDATE ... WHERE good_graph = %s AND adversarial_graph IS NULL
AttackTargets(r, good_uuid) ==
    {id \in DOMAIN table : View(r)[id].good_graph = Some(good_uuid)
                           /\ IsNull(View(r)[id].adversarial_graph)}

AttackItem(r) ==
    /\ run[r].pc = "loop"
    /\ run[r].stage = "attack"
    /\ run[r].i <= Len(run[r].items)
    /\ LET me == run[r]
           good_uuid == me.items[me.i]
       IN  IF ~HasImage(good_uuid)
           THEN \* get_image raises KeyError, which nothing catches
                /\ run' = [run EXCEPT ![r] = Raised([me EXCEPT !.seen = Append(@, good_uuid)], "KeyError")]
                /\ UNCHANGED <<cx, qx, orch, probe, mode, table, blobs, nextUuid, overwrote>>
           ELSE LET adversarial_bytes == blobs[good_uuid]
                    adversarial_uuid == nextUuid
                    ids == AttackTargets(r, good_uuid)
                    tx == [id \in ids |-> [View(r)[id] EXCEPT !.adversarial_graph = Some(adversarial_uuid)]]
                          @@ me.tx
                    n == me.n + 1
                    commit == AtBatchBoundary(n)
                IN  /\ ~Locked(r, ids)
                    /\ blobs' = put_image(blobs, adversarial_uuid, adversarial_bytes)
                    /\ nextUuid' = nextUuid + 1
                    /\ table' = IF commit THEN Commit(table, tx) ELSE table
                    /\ overwrote' = overwrote \cup
                         SetCols({View(r)[id] : id \in ids}, {"adversarial_graph"})
                    /\ run' = [run EXCEPT ![r] =
                                 [me EXCEPT !.i = @ + 1, !.n = n,
                                            !.seen = Append(@, me.items[me.i]),
                                            !.rows_updated = @ + Card(ids),
                                            !.tx = IF commit THEN Empty ELSE tx,
                                            !.unc = IF commit THEN 0 ELSE @ + 1,
                                            !.made = (good_uuid :> adversarial_uuid) @@ @]]
    /\ last' = NoLast
    /\ UNCHANGED <<cx, qx, orch, probe, mode, nextId, imp, starts, wiped>>

(***************************************************************************)
(* explain_all (data_pipeline/explain.py)                                  *)
(***************************************************************************)
\* variant of ExplainIds: SELECT ... WHERE good_graph IS NOT NULL
ExplainIds_All == {i \in DOMAIN table : ~IsNull(table[i].good_graph)}

\* SELECT id, good_graph, question ... WHERE good_graph IS NOT NULL
\*   AND hidden_answer IS NULL ORDER BY id
ExplainIds == {i \in DOMAIN table : ~IsNull(table[i].good_graph) /\ IsNull(table[i].hidden_answer)}

ExplainRows(ids) ==
    [k \in 1..Len(ids) |-> <<ids[k], Val(table[ids[k]].good_graph), table[ids[k]].question>>]

ExplainSelect(r, max_rows) ==
    /\ Free(r, "explain")
    /\ run' = [run EXCEPT ![r] = Began("explain", max_rows,
                                       ExplainRows(Limit(SortedSeq(ExplainIds), max_rows)),
                                       max_rows > 0 /\ Card(ExplainIds) > max_rows)]
    /\ last' = LastOf(run'[r])
    /\ starts' = Started
    /\ UNCHANGED <<cx, qx, orch, probe, mode, table, blobs, nextUuid, nextId, imp, wiped, overwrote>>

\* the placeholder description of the stub
Description(good_uuid, question) == <<"[PLACEHOLDER]", good_uuid, question>>

ExplainItem(r) ==
    /\ run[r].pc = "loop"
    /\ run[r].stage = "explain"
    /\ run[r].i <= Len(run[r].items)
    /\ LET me == run[r]
           sid == me.items[me.i][1]
           good_uuid == me.items[me.i][2]
           question == me.items[me.i][3]
       IN  IF ~HasImage(good_uuid)
           THEN /\ run' = [run EXCEPT ![r] = Raised(me, "KeyError")]
                /\ UNCHANGED <<cx, qx, orch, probe, mode, table, overwrote>>
           ELSE LET description == Description(good_uuid, question)
                    \* UPDATE samples SET hidden_answer = %s WHERE id = %s
                    ids == {sid} \cap DOMAIN table
                    tx == [id \in ids |-> [View(r)[id] EXCEPT !.hidden_answer = Some(description)]]
                          @@ me.tx
                    n == me.n + 1
                    commit == AtBatchBoundary(n)
                IN  /\ ~Locked(r, ids)
                    /\ table' = IF commit THEN Commit(table, tx) ELSE table
                    /\ overwrote' = overwrote \cup
                         SetCols({View(r)[id] : id \in ids}, {"hidden_answer"})
                    /\ run' = [run EXCEPT ![r] =
                                 [me EXCEPT !.i = @ + 1, !.n = n,
                                            !.tx = IF commit THEN Empty ELSE tx,
                                            !.unc = IF commit THEN 0 ELSE @ + 1,
                                            !.made = (sid :> description) @@ @]]
    /\ last' = NoLast
    /\ UNCHANGED <<cx, qx, orch, probe, mode, blobs, nextUuid, nextId, imp, starts, wiped>>

(***************************************************************************)
(* evaluate_all (data_pipeline/eval.py)                                    *)
(***************************************************************************)
\* SELECT id, adversarial_graph, question, good_answer ... WHERE
\*   adversarial_graph IS NOT NULL AND output_answer IS NULL ORDER BY id
EvaluateIds ==
    {i \in DOMAIN table : ~IsNull(table[i].adversarial_graph) /\ IsNull(table[i].output_answer)}

EvaluateRows(ids) ==
    [k \in 1..Len(ids) |-> <<ids[k], Val(table[ids[k]].adversarial_graph),
                             table[ids[k]].question, table[ids[k]].good_answer>>]

EvaluateSelect(r, max_rows) ==
    /\ Free(r, "evaluate")
    /\ run' = [run EXCEPT ![r] = Began("evaluate", max_rows,
                                       EvaluateRows(Limit(SortedSeq(EvaluateIds), max_rows)),
                                       max_rows > 0 /\ Card(EvaluateIds) > max_rows)]
    /\ last' = LastOf(run'[r])
    /\ starts' = Started
    /\ UNCHANGED <<cx, qx, orch, probe, mode, table, blobs, nextUuid, nextId, imp, wiped, overwrote>>

\* str.strip().lower() on the answers of the dataset
StripLower(s) == IF s = "Yes" THEN "yes" ELSE IF s = "No" THEN "no" ELSE s

\* variant of Compare: the test is inverted
Compare_Equal(output_answer, good_answer) ==
    StripLower(output_answer) = StripLower(good_answer)

\* output_answer.strip().lower() != good_answer.strip().lower()
Compare(output_answer, good_answer) ==
    StripLower(output_answer) # StripLower(good_answer)

EvaluateItem(r) ==
    /\ run[r].pc = "loop"
    /\ run[r].stage = "evaluate"
    /\ run[r].i <= Len(run[r].items)
    /\ LET me == run[r]
           sid == me.items[me.i][1]
           adv_uuid == me.items[me.i][2]
           good_answer == me.items[me.i][4]
       IN  IF ~HasImage(adv_uuid)
           THEN /\ run' = [run EXCEPT ![r] = Raised(me, "KeyError")]
                /\ UNCHANGED <<cx, qx, orch, probe, mode, table, overwrote>>
           ELSE LET output_answer == good_answer
                    attack_succeeded == Compare(output_answer, good_answer)
                    \* UPDATE samples SET output_answer = %s, attack_succeeded = %s WHERE id = %s
                    ids == {sid} \cap DOMAIN table
                    tx == [id \in ids |-> [View(r)[id] EXCEPT !.output_answer = Some(output_answer),
                                                              !.attack_succeeded = Some(attack_succeeded)]]
                          @@ me.tx
                    n == me.n + 1
                    commit == AtBatchBoundary(n)
                IN  /\ ~Locked(r, ids)
                    /\ table' = IF commit THEN Commit(table, tx) ELSE table
                    /\ overwrote' = overwrote \cup
                         SetCols({View(r)[id] : id \in ids}, {"output_answer", "attack_succeeded"})
                    /\ run' = [run EXCEPT ![r] =
                                 [me EXCEPT !.i = @ + 1, !.n = n,
                                            !.succeeded = IF attack_succeeded THEN @ + 1 ELSE @,
                                            !.failed = IF attack_succeeded THEN @ ELSE @ + 1,
                                            !.tx = IF commit THEN Empty ELSE tx,
                                            !.unc = IF commit THEN 0 ELSE @ + 1,
                                            !.made = (sid :> <<output_answer, attack_succeeded>>) @@ @]]
    /\ last' = NoLast
    /\ UNCHANGED <<cx, qx, orch, probe, mode, blobs, nextUuid, nextId, imp, starts, wiped>>

(***************************************************************************)
(* preprocess_all of src/preprocess/preprocess_chart.py, the earlier       *)
(* preprocessor: one iteration per sample row.  Its column good_graph (the *)
(* raw image) is raw here, and its processed_graph is good_graph here.     *)
(***************************************************************************)
\* SELECT id, good_graph ... WHERE processed_graph IS NULL ORDER BY id
LegacyIds == {i \in DOMAIN table : IsNull(table[i].good_graph)}

LegacyRows(ids) == [k \in 1..Len(ids) |-> <<ids[k], table[ids[k]].raw>>]

\* raw_key_to_processed_key: the processed key is a function of the raw key
raw_key_to_processed_key(raw_key) == 0 - raw_key

LegacySelect(r) ==
    /\ Free(r, "legacy")
    /\ run' = [run EXCEPT ![r] = Began("legacy", 0, LegacyRows(SortedSeq(LegacyIds)), FALSE)]
    /\ last' = LastOf(run'[r])
    /\ starts' = Started
    /\ UNCHANGED <<cx, qx, orch, probe, mode, table, blobs, nextUuid, nextId, imp, wiped, overwrote>>

\* one iteration of the loop over rows; made is s3_cache
LegacyItem(r) ==
    /\ run[r].pc = "loop"
    /\ run[r].stage = "legacy"
    /\ run[r].i <= Len(run[r].items)
    /\ LET me == run[r]
           sample_id == me.items[me.i][1]
           raw_key == me.items[me.i][2]
           processed_key == raw_key_to_processed_key(raw_key)
           cached == raw_key \in DOMAIN me.made
           seen == IF cached THEN me.seen ELSE Append(me.seen, raw_key)
           result == preprocess_single(blobs[raw_key])
       IN  IF ~cached /\ (~HasImage(raw_key) \/ result.st = "none")
           THEN \* download failed, or corrupt image: skipped_count += 1; continue
                /\ run' = [run EXCEPT ![r] = [me EXCEPT !.i = @ + 1, !.skipped = @ + 1,
                                                        !.seen = seen]]
                /\ UNCHANGED <<table, blobs, overwrote>>
           ELSE IF ~cached /\ result.st = "raise"
           THEN /\ run' = [run EXCEPT ![r] = Raised([me EXCEPT !.seen = seen], "ValueError")]
                /\ UNCHANGED <<table, blobs, overwrote>>
           ELSE LET entry == IF cached THEN me.made[raw_key]
                             ELSE [ref |-> processed_key, meta |-> result.meta,
                                   ow |-> result.original_width, oh |-> result.original_height]
                    \* UPDATE ... WHERE id = %s
                    ids == {sample_id} \cap DOMAIN table
                    tx == [id \in ids |-> [View(r)[id] EXCEPT !.good_graph = Some(processed_key),
                                                              !.preprocess_meta = Some(entry.meta),
                                                              !.original_width = Some(entry.ow),
                                                              !.original_height = Some(entry.oh)]]
                          @@ me.tx
                    n == me.n + 1
                    commit == AtBatchBoundary(n)
                IN  /\ ~Locked(r, ids)
                    /\ blobs' = IF cached THEN blobs
                                ELSE put_image(blobs, processed_key, result.image_bytes)
                    /\ table' = IF commit THEN Commit(table, tx) ELSE table
                    /\ overwrote' = overwrote \cup
                         SetCols({View(r)[id] : id \in ids},
                                 {"good_graph", "preprocess_meta", "original_width", "original_height"})
                    /\ run' = [run EXCEPT ![r] =
                                 [me EXCEPT !.i = @ + 1, !.n = n, !.seen = seen,
                                            !.tx = IF commit THEN Empty ELSE tx,
                                            !.unc = IF commit THEN 0 ELSE @ + 1,
                                            !.made = (raw_key :> entry) @@ @]]
    /\ last' = NoLast
    /\ UNCHANGED <<cx, qx, orch, probe, mode, nextUuid, nextId, imp, starts, wiped>>

(***************************************************************************)
(* The end of a stage's loop, and PostgreSQL's deadlock detection.         *)
(***************************************************************************)
\* variant of Finish: the connection is closed without the commit
Finish_CloseOnly(r) ==
    /\ run[r].pc = "loop"
    /\ run[r].i > Len(run[r].items)
    /\ run' = [run EXCEPT ![r] = Returned(run[r])]
    /\ last' = LastOf(run'[r])
    /\ UNCHANGED <<cx, qx, orch, probe, mode, table, blobs, nextUuid, nextId, imp, starts, wiped, overwrote>>

\* the loop is over: the with block exits (commit) and the function returns
Finish(r) ==
    /\ run[r].pc = "loop"
    /\ run[r].i > Len(run[r].items)
    /\ table' = Commit(table, run[r].tx)
    /\ run' = [run EXCEPT ![r] = Returned(run[r])]
    /\ last' = LastOf(run'[r])
    /\ UNCHANGED <<cx, qx, orch, probe, mode, blobs, nextUuid, nextId, imp, starts, wiped, overwrote>>

\* the rows the next UPDATE of run r targets
NextTargets(r) ==
    LET me == run[r]
        it == me.items[me.i]
    IN  CASE me.stage = "preprocess" -> PreprocessTargets(r, it)
          [] me.stage = "attack"     -> AttackTargets(r, it)
          [] OTHER                   -> {it[1]} \cap DOMAIN table

Waiting(r) ==
    /\ run[r].pc = "loop"
    /\ run[r].i <= Len(run[r].items)
    /\ Locked(r, NextTargets(r))

\* two transactions wait for each other's row locks: the server aborts one
\* of them with DeadlockDetected
DeadlockAbort(r) ==
    /\ Waiting(r)
    /\ \E o \in Slots \ {r} :
         /\ Waiting(o)
         /\ NextTargets(r) \cap DOMAIN run[o].tx # {}
         /\ NextTargets(o) \cap DOMAIN run[r].tx # {}
    /\ run' = [run EXCEPT ![r] = Raised(run[r], "DeadlockDetected")]
    /\ last' = NoLast
    /\ UNCHANGED <<cx, qx, orch, probe, mode, table, blobs, nextUuid, nextId, imp, starts, wiped, overwrote>>

\* the next item of run r gets as far as its UPDATE
Processes(r) ==
    LET me == run[r]
        it == me.items[me.i]
    IN  /\ me.i <= Len(me.items)
        /\ ~Locked(r, NextTargets(r))
        /\ CASE me.stage = "preprocess" -> HasImage(it) /\ preprocess_single(blobs[it]).st = "ok"
             [] me.stage = "attack"     -> HasImage(it)
             [] OTHER                   -> HasImage(it[2])

\* the process of run r is killed (the container is stopped or times out):
\* between two iterations, or inside an iteration after its put_image and
\* UPDATE and before the commit that may follow.  The connection closes
\* without commit.
Kill(r) ==
    /\ run[r].pc = "loop"
    /\ \E inside \in BOOLEAN :
         LET me == run[r]
             it == me.items[me.i]
         IN  IF inside
             THEN /\ Processes(r)
                  /\ run' = [run EXCEPT ![r] = [Raised(me, "Killed") EXCEPT !.lost = me.unc + 1]]
                  /\ IF me.stage \in {"preprocess", "attack"}
                     THEN /\ blobs' = put_image(blobs, nextUuid,
                                                IF me.stage = "preprocess"
                                                THEN preprocess_single(blobs[it]).image_bytes
                                                ELSE blobs[it])
                          /\ nextUuid' = nextUuid + 1
                     ELSE UNCHANGED <<blobs, nextUuid>>
             ELSE /\ run' = [run EXCEPT ![r] = Raised(me, "Killed")]
                  /\ UNCHANGED <<blobs, nextUuid>>
    /\ last' = NoLast
    /\ UNCHANGED <<cx, qx, orch, probe, mode, table, nextId, imp, starts, wiped, overwrote>>

\* the calls of a stage's loop that reach a store, and what each raises
\* when the store fails
StoreCalls == {"get_image", "put_image", "execute", "commit"}
ErrorOf(call) ==
    IF call \in {"get_image", "put_image"} THEN "ClientError" ELSE "OperationalError"

\* a store fails under run r: get_image re-raises a ClientError that is
\* not NoSuchKey, put_image's put_object raises, cur.execute raises after
\* the item's put_image, or a commit raises (the one after the loop, or the
\* one that follows the UPDATE of a batch's last item)
StoreFault(r, call) ==
    /\ run[r].pc = "loop"
    /\ LET me == run[r]
           it == me.items[me.i]
           inloop == me.i <= Len(me.items)
           puts == me.stage \in {"preprocess", "attack"}
           \* the item's put_image and UPDATE are done when the call fails
           updated == call = "commit" /\ inloop
       IN  /\ CASE call = "get_image" -> inloop
                [] call = "put_image" -> inloop /\ puts /\ Processes(r)
                [] call = "execute"   -> inloop /\ Processes(r)
                [] OTHER              -> inloop => Processes(r) /\ AtBatchBoundary(me.n + 1)
           /\ run' = [run EXCEPT ![r] =
                        [Raised(me, ErrorOf(call)) EXCEPT
                            !.lost = IF updated THEN me.unc + 1 ELSE me.unc]]
           /\ IF inloop /\ puts /\ call \in {"execute", "commit"}
              THEN /\ blobs' = put_image(blobs, nextUuid,
                                         IF me.stage = "preprocess"
                                         THEN preprocess_single(blobs[it]).image_bytes
                                         ELSE blobs[it])
                   /\ nextUuid' = nextUuid + 1
              ELSE UNCHANGED <<blobs, nextUuid>>
    /\ last' = NoLast
    /\ UNCHANGED <<cx, qx, orch, probe, mode, table, nextId, imp, starts, wiped, overwrote>>

(***************************************************************************)
(* Specifications.                                                         *)
(***************************************************************************)
Limits == {0, RowLimit}

\* the datasets the importer may be given
Offered == IF mode = "geom" THEN ProbeDatasets ELSE Datasets

Start ==
    \/ \E ds \in Offered, sized \in BOOLEAN : ImportStart(ds, sized)
    \/ \E r \in Slots : PreprocessSelect(r)
    \/ \E r \in Slots, max_rows \in Limits : AttackSelect(r, max_rows)
    \/ \E r \in Slots, max_rows \in Limits : ExplainSelect(r, max_rows)
    \/ \E r \in Slots, max_rows \in Limits : EvaluateSelect(r, max_rows)
    \/ wipe_s3

Step ==
    \/ ImportRow
    \/ ImportFinish
    \/ \E r \in Slots : PreprocessItem(r)
    \/ \E r \in Slots : AttackItem(r)
    \/ \E r \in Slots : ExplainItem(r)
    \/ \E r \in Slots : EvaluateItem(r)
    \/ \E r \in Slots : Finish(r)

Next == Start \/ Step \/ \E r \in Slots : DeadlockAbort(r)

\* without overlapping runs no transaction ever waits
SeqNext == Start \/ Step

\* runs, importers and wipes in any interleaving
Init == Created /\ mode = "free"
Spec == Init /\ [][Next]_vars

\* one process at a time
SeqInit == Created /\ mode = "seq"
SeqSpec == SeqInit /\ [][SeqNext]_vars

\* one process at a time, except for runs of the same stage
RaceInit == Created /\ mode = "race"
RaceSpec == RaceInit /\ [][Next]_vars

\* one process at a time, except for an explanation run beside a
\* perturbation or evaluation run
PairInit == Created /\ mode = "pair"
PairSpec == PairInit /\ [][Next]_vars

\* one process at a time, any of which may be killed
CrashNext == SeqNext \/ \E r \in Slots : Kill(r)
CrashInit == Created /\ mode = "crash"
CrashSpec == CrashInit /\ [][CrashNext]_vars

\* one process at a time, under any of which a store may fail
FaultNext == SeqNext \/ \E r \in Slots, call \in StoreCalls : StoreFault(r, call)
FaultInit == Created /\ mode = "fault"
FaultSpec == FaultInit /\ [][FaultNext]_vars

\* one process at a time, the earlier preprocessor among them
LegacyNext == SeqNext \/ \E r \in Slots : LegacySelect(r) \/ LegacyItem(r)
LegacyInit == Created /\ mode = "legacy"
LegacySpec == LegacyInit /\ [][LegacyNext]_vars

(***************************************************************************)
(* main.py: the orchestrator.  Each step is a subprocess whose return code *)
(* is whatever that script ends with, or negative when a signal ends it.   *)
(***************************************************************************)
ReturnCodes == {0, 1, 0 - 9}

\* variant of run_step: every step counts as passed
run_step_Always(returncode) == TRUE

\* main.py's run(cmd, label): the step passed iff its return code is 0
run_step(returncode) == returncode = 0

\* what main does after the clean step: imports, else preprocess, else summary
AfterClean(o) ==
    IF ~o.skip_import THEN "spawn"
    ELSE IF ~o.skip_preprocess THEN "preprocess" ELSE "summary"

\* main: arguments parsed, results = {}
MainStart(clean, skip_import, skip_preprocess) ==
    /\ mode = "main"
    /\ orch.pc = "idle"
    /\ LET o == [orch EXCEPT !.clean = clean, !.skip_import = skip_import,
                             !.skip_preprocess = skip_preprocess]
       IN  orch' = [o EXCEPT !.pc = IF ~skip_import /\ clean THEN "clean" ELSE AfterClean(o)]
    /\ UNCHANGED <<cx, qx, probe, mode, table, blobs, nextUuid, nextId, imp, run, starts, wiped,
                   last, overwrote>>

\* variant of MainClean: main goes on after a failed clean step
MainClean_Continue(returncode) ==
    /\ orch.pc = "clean"
    /\ LET o == [orch EXCEPT !.results = Append(@, <<"clean", run_step(returncode)>>),
                             !.codes = @ \cup {<<"clean", returncode>>}]
       IN  orch' = [o EXCEPT !.pc = AfterClean(o)]
    /\ UNCHANGED <<cx, qx, probe, mode, table, blobs, nextUuid, nextId, imp, run, starts, wiped,
                   last, overwrote>>

\* main: the clean step; when it fails main exits 1 at once
MainClean(returncode) ==
    /\ orch.pc = "clean"
    /\ LET ok == run_step(returncode)
           o == [orch EXCEPT !.results = Append(@, <<"clean", ok>>),
                             !.codes = @ \cup {<<"clean", returncode>>}]
       IN  orch' = IF ~ok THEN [o EXCEPT !.pc = "done", !.exit = Some(1)]
                   ELSE [o EXCEPT !.pc = AfterClean(o)]
    /\ UNCHANGED <<cx, qx, probe, mode, table, blobs, nextUuid, nextId, imp, run, starts, wiped,
                   last, overwrote>>

\* main: Popen of the next importer; the importers run side by side
MainSpawn ==
    /\ orch.pc = "spawn"
    /\ LET spawned == orch.spawned \cup {IMPORTERS[Cardinality(orch.spawned) + 1]}
       IN  orch' = [orch EXCEPT !.spawned = spawned,
                                !.pc = IF Cardinality(spawned) = Len(IMPORTERS)
                                       THEN "wait" ELSE "spawn"]
    /\ UNCHANGED <<cx, qx, probe, mode, table, blobs, nextUuid, nextId, imp, run, starts, wiped,
                   last, overwrote>>

\* an importer subprocess ends
ImporterExit(name, returncode) ==
    /\ name \in orch.spawned
    /\ \A c \in orch.codes : c[1] # name
    /\ orch' = [orch EXCEPT !.codes = @ \cup {<<name, returncode>>}]
    /\ UNCHANGED <<cx, qx, probe, mode, table, blobs, nextUuid, nextId, imp, run, starts, wiped,
                   last, overwrote>>

\* variant of MainWait: main exits 1 as soon as an importer it waited for failed
MainWait_AbortOnFailure ==
    /\ orch.pc = "wait"
    /\ LET name == IMPORTERS[orch.waited + 1]
       IN  \E c \in orch.codes :
              /\ c[1] = name
              /\ LET ok == c[2] = 0
                     o == [orch EXCEPT !.results = Append(@, <<name, ok>>),
                                       !.waited = @ + 1]
                 IN  orch' = IF ~ok THEN [o EXCEPT !.pc = "done", !.exit = Some(1)]
                             ELSE IF o.waited < Len(IMPORTERS) THEN o
                             ELSE [o EXCEPT !.pc = IF ~o.skip_preprocess THEN "preprocess"
                                                   ELSE "summary"]
    /\ UNCHANGED <<cx, qx, probe, mode, table, blobs, nextUuid, nextId, imp, run, starts, wiped,
                   last, overwrote>>

\* main: proc.wait() on the next importer, in the order they were started
MainWait ==
    /\ orch.pc = "wait"
    /\ LET name == IMPORTERS[orch.waited + 1]
       IN  \E c \in orch.codes :
              /\ c[1] = name
              /\ LET ok == c[2] = 0
                     o == [orch EXCEPT !.results = Append(@, <<name, ok>>),
                                       !.waited = @ + 1]
                 IN  orch' = IF o.waited < Len(IMPORTERS) THEN o
                             ELSE [o EXCEPT !.pc = IF ~o.skip_preprocess THEN "preprocess"
                                                   ELSE "summary"]
    /\ UNCHANGED <<cx, qx, probe, mode, table, blobs, nextUuid, nextId, imp, run, starts, wiped,
                   last, overwrote>>

\* main: the preprocess step
MainPreprocess(returncode) ==
    /\ orch.pc = "preprocess"
    /\ orch' = [orch EXCEPT !.results = Append(@, <<"preprocess", run_step(returncode)>>),
                            !.codes = @ \cup {<<"preprocess", returncode>>},
                            !.pc = "summary"]
    /\ UNCHANGED <<cx, qx, probe, mode, table, blobs, nextUuid, nextId, imp, run, starts, wiped,
                   last, overwrote>>

\* main: the summary, then exit 1 if a result is a failure, else 0
MainSummary ==
    /\ orch.pc = "summary"
    /\ LET failed == Cardinality({i \in DOMAIN orch.results : ~orch.results[i][2]})
       IN  orch' = [orch EXCEPT !.summary = Some(orch.results),
                                !.exit = Some(IF failed # 0 THEN 1 ELSE 0),
                                !.pc = "done"]
    /\ UNCHANGED <<cx, qx, probe, mode, table, blobs, nextUuid, nextId, imp, run, starts, wiped,
                   last, overwrote>>

MainNext ==
    \/ \E clean, skip_import, skip_preprocess \in BOOLEAN :
          MainStart(clean, skip_import, skip_preprocess)
    \/ \E returncode \in ReturnCodes : MainClean(returncode)
    \/ MainSpawn
    \/ \E name \in Steps, returncode \in ReturnCodes : ImporterExit(name, returncode)
    \/ MainWait
    \/ \E returncode \in ReturnCodes : MainPreprocess(returncode)
    \/ MainSummary
MainInit == Created /\ mode = "main"
MainSpec == MainInit /\ [][MainNext]_vars

\* the three importers of the data_pipeline, one at a time
IngestNext ==
    \/ \E ds \in Datasets : ImportStart(ds, FALSE)
    \/ ImportRow
    \/ ImportFinish
    \/ \E rows \in ChartXSizes, kind \in ChartXKinds, max_rows \in MaxRowsArgs :
          ChartXStart(rows, kind, max_rows)
    \/ ChartXRow
    \/ ChartXEnd
    \/ \E rows \in ChartQAXSizes, max_rows \in MaxRowsArgs : ChartQAXStart(rows, max_rows)
    \/ \E chart_type \in ChartQAXTypes, has_image \in BOOLEAN : ChartQAXRow(chart_type, has_image)
    \/ ChartQAXEnd
IngestInit == Created /\ mode = "ingest"
IngestSpec == IngestInit /\ [][IngestNext]_vars

\* one process at a time, over a dataset of one image drawn from ProbeImages
GeomInit ==
    /\ probe \in ProbeImages
    /\ orch = IdleOrch
    /\ cx = IdleCx
    /\ qx = IdleQx
    /\ table = Empty /\ blobs = Empty /\ nextUuid = 1 /\ nextId = 1
    /\ imp = IdleImp /\ run = [r \in Slots |-> IdleRun]
    /\ starts = 0 /\ wiped = FALSE /\ last = NoLast /\ overwrote = {}
    /\ mode = "geom"
GeomSpec == GeomInit /\ [][SeqNext]_vars

\* preprocess_all and explain_all rerun by the operator again and again,
\* each run after the one before it has ended
RerunNext ==
    \/ \E ds \in Offered, sized \in BOOLEAN : ImportStart(ds, sized)
    \/ ImportRow
    \/ ImportFinish
    \/ \E r \in Slots : PreprocessSelect(r)
    \/ \E r \in Slots : PreprocessItem(r)
    \/ \E r \in Slots, max_rows \in Limits : ExplainSelect(r, max_rows)
    \/ \E r \in Slots : ExplainItem(r)
    \/ \E r \in Slots : Finish(r)
RerunInit == Created /\ mode = "rerun"
\* every started process runs on, and each stage is started again whenever
\* nothing is running
RerunFair ==
    /\ WF_vars(ImportRow \/ ImportFinish \/ \E r \in Slots : PreprocessItem(r) \/ ExplainItem(r) \/ Finish(r))
    /\ SF_vars(\E r \in Slots : PreprocessSelect(r))
    /\ SF_vars(\E r \in Slots, max_rows \in Limits : ExplainSelect(r, max_rows))
RerunSpec == RerunInit /\ [][RerunNext]_vars /\ RerunFair

(***************************************************************************)
(* Properties.                                                             *)
(***************************************************************************)
OutputCols ==
    {"good_graph", "preprocess_meta", "original_width", "original_height",
     "hidden_answer", "adversarial_graph", "output_answer", "attack_succeeded"}

\* the rows a run reports as written
Written(rec) == IF rec.stage \in {"preprocess", "attack"} THEN rec.rows_updated ELSE rec.n

\* rec is a run of the stage that completed normally just before it started
Repeats(rec) == rec.pc # "idle" /\ rec.prev.stage = rec.stage

\* C1 (as claimed): a stage run again right after a run of it completed
\* normally, with no row inserted and no blob changed in between, reports
\* zero rows written and changes no column of the table.
C1_Idempotence ==
    [][\A r \in Slots :
         run'[r] # run[r] /\ Repeats(run'[r])
            => table' = table /\ Written(run'[r]) = 0 /\ run'[r].tx = Empty]_vars

\* C1 (amended): the same, when max_rows did not cut the first run's
\* selection short.
C1_IdempotenceUnlimited ==
    [][\A r \in Slots :
         run'[r] # run[r] /\ Repeats(run'[r]) /\ ~run'[r].prev.trunc
            => table' = table /\ Written(run'[r]) = 0 /\ run'[r].tx = Empty]_vars

\* a preprocessing run repeated after a run that wrote rows and skipped a
\* key has gone through its loop again and returned
C1_Witness ==
    \E r \in Slots :
        /\ Repeats(run[r]) /\ ~run[r].prev.trunc
        /\ run[r].pc = "done" /\ run[r].stage = "preprocess" /\ run[r].skipped > 0
        /\ \E id \in DOMAIN table : ~IsNull(table[id].good_graph)

\* C2: no UPDATE of a stage writes a column that is set at the moment the
\* write is applied.
C2_WriteOnce == overwrote = {}

\* C3: two samples with equal raw_graph that both have good_graph set have
\* equal good_graph, preprocess_meta, original_width and original_height.
C3_Sharing ==
    \A a, b \in DOMAIN table :
        /\ table[a].raw = table[b].raw
        /\ ~IsNull(table[a].good_graph)
        /\ ~IsNull(table[b].good_graph)
        => /\ table[a].good_graph = table[b].good_graph
           /\ table[a].preprocess_meta = table[b].preprocess_meta
           /\ table[a].original_width = table[b].original_width
           /\ table[a].original_height = table[b].original_height

\* the rows of the table a computed value of a stage is written to
RowsFor(stage, k) ==
    CASE stage = "preprocess" -> {id \in DOMAIN table : table[id].raw = k}
      [] stage = "attack"     -> {id \in DOMAIN table : table[id].good_graph = Some(k)}
      [] OTHER                -> {k} \cap DOMAIN table

\* the row holds the value v a run of the stage computed for it
Holds(stage, row, v) ==
    CASE stage = "preprocess" ->
            /\ row.good_graph = Some(v.ref)
            /\ row.preprocess_meta = Some(v.meta)
            /\ row.original_width = Some(v.ow)
            /\ row.original_height = Some(v.oh)
      [] stage = "attack"   -> row.adversarial_graph = Some(v)
      [] stage = "explain"  -> row.hidden_answer = Some(v)
      [] OTHER              -> row.output_answer = Some(v[1]) /\ row.attack_succeeded = Some(v[2])

\* the bytes stored under an identifier, if any
Bytes(u) == IF HasImage(u) THEN Some(blobs[u]) ELSE Null

\* the same, with a blob identifier standing for the bytes stored under it
HoldsContent(stage, row, v) ==
    CASE stage = "preprocess" ->
            /\ ~IsNull(row.good_graph)
            /\ Bytes(Val(row.good_graph)) = Bytes(v.ref)
            /\ row.preprocess_meta = Some(v.meta)
            /\ row.original_width = Some(v.ow)
            /\ row.original_height = Some(v.oh)
      [] stage = "attack"   ->
            /\ ~IsNull(row.adversarial_graph)
            /\ Bytes(Val(row.adversarial_graph)) = Bytes(v)
      [] OTHER              -> Holds(stage, row, v)

\* two runs of one stage have both returned, and both computed key k
BothComputed(r, o, k) ==
    /\ r # o
    /\ run[r].pc = "done" /\ run[o].pc = "done"
    /\ run[r].stage = run[o].stage
    /\ k \in DOMAIN run[r].made \cap DOMAIN run[o].made

\* C4 (as claimed): when two runs of a stage both computed the transform of
\* the same key, the rows end with the same column values whichever run's
\* write landed first: the values in the table are those of either run.
C4_OrderIndependent ==
    \A r, o \in Slots : \A k \in DOMAIN run[r].made :
        BothComputed(r, o, k) =>
            \A id \in RowsFor(run[r].stage, k) :
                /\ Holds(run[r].stage, table[id], run[r].made[k])
                /\ Holds(run[r].stage, table[id], run[o].made[k])

\* C4 (amended): the same up to the generated identifier: good_graph and
\* adversarial_graph name a blob with the bytes either run stored, and every
\* other column has the value either run computed.
C4_OrderIndependentContent ==
    \A r, o \in Slots : \A k \in DOMAIN run[r].made :
        BothComputed(r, o, k) =>
            \A id \in RowsFor(run[r].stage, k) :
                /\ HoldsContent(run[r].stage, table[id], run[r].made[k])
                /\ HoldsContent(run[r].stage, table[id], run[o].made[k])

\* two preprocessing runs have raced for a key and stored two blobs for it
C4_Witness ==
    \E r, o \in Slots : \E k \in DOMAIN run[r].made :
        /\ BothComputed(r, o, k)
        /\ run[r].stage = "preprocess"
        /\ run[r].made[k].ref # run[o].made[k].ref
        /\ HasImage(run[r].made[k].ref) /\ HasImage(run[o].made[k].ref)
        /\ RowsFor("preprocess", k) # {}

\* the blob decodes: get_image finds it and validate_image accepts it
Valid(raw_uuid) == HasImage(raw_uuid) /\ validate_image(blobs[raw_uuid])

ItemSet(rec) == {rec.items[k] : k \in 1..Len(rec.items)}

\* every raw image the run selected backs one sample
OneSampleEach(rec) ==
    \A k \in ItemSet(rec) : Card({id \in DOMAIN table : table[id].raw = k}) = 1

\* C5: a preprocessing run, with nothing else running, never aborts on a
\* corrupt image and never touches a sample whose image is corrupt; over N
\* valid and M corrupt raw images of one sample each it returns normally with
\* rows_updated = N and skipped = M, good_graph set on exactly the N valid
\* samples.
C5_FailureIsolation ==
    [][\A r \in Slots :
         run[r].pc = "loop" /\ run[r].stage = "preprocess" /\ run'[r] # run[r] =>
            /\ run'[r].pc # "failed"
            /\ \A id \in DOMAIN table :
                 ~Valid(table[id].raw) => table'[id] = table[id] /\ id \notin DOMAIN run'[r].tx
            /\ run'[r].pc = "done" /\ OneSampleEach(run[r]) =>
                 LET N == Card({k \in ItemSet(run[r]) : Valid(k)})
                     M == Card({k \in ItemSet(run[r]) : ~Valid(k)})
                 IN  /\ run'[r].rows_updated = N
                     /\ run'[r].skipped = M
                     /\ \A id \in DOMAIN table' :
                          table'[id].raw \in ItemSet(run[r]) =>
                             (~IsNull(table'[id].good_graph) <=> Valid(table'[id].raw))]_vars

\* a preprocessing run over two valid images and a corrupt one has returned
C5_Witness ==
    \E r \in Slots :
        /\ run[r].pc = "done" /\ run[r].stage = "preprocess"
        /\ OneSampleEach(run[r])
        /\ run[r].rows_updated = 2 /\ run[r].skipped = 1
        /\ \E k \in ItemSet(run[r]) : HasImage(k) /\ ~validate_image(blobs[k])

\* C6: a stage run does not return normally with more than the failure
\* budget of skipped items, nor when every item it attempted failed.
C6_FailureBudget ==
    \A r \in Slots :
        run[r].pc = "done" =>
            /\ run[r].skipped <= MAX_FAILURES
            /\ ~(Len(run[r].items) > 0 /\ run[r].skipped = Len(run[r].items))

\* C7: a blob missing from the bucket never aborts a stage run: no run ends
\* with the KeyError of get_image.
C7_MissingIsSkipped == \A r \in Slots : run[r].err # "KeyError"

\* a 1 x 1 image whose only pixel is fully transparent
TransparentPixel(img) ==
    /\ img.ok /\ img.w = 1 /\ img.h = 1 /\ img.mode \in AlphaModes
    /\ img.px # {}
    /\ \A p \in img.px : p.a = 0

\* the table holds two samples of raw image R and a third of R2, a
\* transparent pixel, and run rec selected both images
Scenario(rec, tbl, s1, s2, s3) ==
    /\ s1 # s2 /\ s1 # s3 /\ s2 # s3
    /\ tbl[s1].raw = tbl[s2].raw
    /\ tbl[s3].raw # tbl[s1].raw
    /\ {tbl[s1].raw, tbl[s3].raw} \subseteq ItemSet(rec)
    /\ Valid(tbl[s1].raw)
    /\ HasImage(tbl[s3].raw) /\ TransparentPixel(blobs[tbl[s3].raw])

\* what the scenario leaves behind
ScenarioResult(tbl, store, s1, s2, s3) ==
    /\ ~IsNull(tbl[s1].good_graph)
    /\ tbl[s1].good_graph = tbl[s2].good_graph
    /\ ~IsNull(tbl[s3].good_graph)
    /\ Val(tbl[s3].good_graph) \in DOMAIN store
    /\ LET out == store[Val(tbl[s3].good_graph)]
       IN  /\ out.ok /\ out.mode = "RGB"
           /\ out.w = TARGET_SIZE /\ out.h = TARGET_SIZE
           /\ out.px = {}
    /\ tbl[s3].preprocess_meta # Null
    /\ Val(tbl[s3].preprocess_meta).crop_box = <<0, 0, 1, 1>>

\* C8: one preprocessing run over two samples of R and a third of the
\* transparent pixel R2 gives the first two one good_graph and the third a
\* TARGET_SIZE x TARGET_SIZE all-background image with crop_box [0, 0, 1, 1].
C8_Scenario ==
    [][\A r \in Slots :
         run[r].pc = "loop" /\ run[r].stage = "preprocess" /\ run'[r].pc = "done" =>
            \A s1, s2, s3 \in DOMAIN table :
                Scenario(run[r], table, s1, s2, s3) => ScenarioResult(table', blobs', s1, s2, s3)]_vars

C8_Witness ==
    \E r \in Slots :
        /\ run[r].pc = "done" /\ run[r].stage = "preprocess"
        /\ \E s1, s2, s3 \in DOMAIN table :
              Scenario(run[r], table, s1, s2, s3) /\ ScenarioResult(table, blobs, s1, s2, s3)

\* C9: adversarial_graph is set only if good_graph is, output_answer and
\* attack_succeeded only if adversarial_graph is, hidden_answer only if
\* good_graph is; and no set column of a sample goes back to null.
C9_Predecessors ==
    \A id \in DOMAIN table :
        LET row == table[id]
        IN  /\ ~IsNull(row.adversarial_graph) => ~IsNull(row.good_graph)
            /\ ~IsNull(row.output_answer) => ~IsNull(row.adversarial_graph)
            /\ ~IsNull(row.attack_succeeded) => ~IsNull(row.adversarial_graph)
            /\ ~IsNull(row.hidden_answer) => ~IsNull(row.good_graph)

C9_StateMachine ==
    /\ []C9_Predecessors
    /\ [][\A id \in DOMAIN table :
            /\ id \in DOMAIN table'
            /\ \A c \in OutputCols : ~IsNull(table[id][c]) => ~IsNull(table'[id][c])]_vars

\* a sample has gone through every stage
C9_Witness ==
    \E id \in DOMAIN table :
        /\ ~IsNull(table[id].output_answer)
        /\ ~IsNull(table[id].attack_succeeded)
        /\ ~IsNull(table[id].adversarial_graph)
        /\ ~IsNull(table[id].good_graph)

\* C10: no step of any run changes the value of a column that was set
\* before it, original_width and original_height recorded at ingestion
\* included.
C10_Monotone ==
    [][\A id \in DOMAIN table : \A c \in OutputCols :
          ~IsNull(table[id][c]) => id \in DOMAIN table' /\ table'[id][c] = table[id][c]]_vars

\* a sample ingested with its width and height has been preprocessed
C10_Witness ==
    /\ imp.sized
    /\ \E id \in DOMAIN table : ~IsNull(table[id].good_graph)
    /\ "original_width" \in overwrote

\* a failure of run r leaves every committed row as it is
KeepsCommitted(r) ==
    run[r].pc = "loop" /\ run'[r].pc = "failed" => table' = table /\ run'[r].tx = Empty

\* C11 (as claimed): the items a run has processed and not committed are
\* fewer than BATCH_SIZE at every point, so a run that crashes or aborts
\* loses fewer than BATCH_SIZE items, and what it committed stays.
C11_BoundedLoss ==
    /\ [](\A r \in Slots : run[r].unc < BatchSize /\ run[r].lost < BatchSize)
    /\ [][\A r \in Slots : KeepsCommitted(r)]_vars

\* C11 (amended): fewer than BATCH_SIZE between two iterations, at most
\* BATCH_SIZE inside one (after the UPDATE of a batch's last item, before its
\* commit), so a run that crashes or aborts loses at most BATCH_SIZE items,
\* and what it committed stays.
C11_BoundedLossBatch ==
    /\ [](\A r \in Slots : run[r].unc < BatchSize /\ run[r].lost <= BatchSize)
    /\ [][\A r \in Slots : KeepsCommitted(r)]_vars

\* a run was killed after it had committed a batch, and lost an update
C11_Witness ==
    \E r \in Slots :
        /\ run[r].pc = "failed" /\ run[r].stage = "explain"
        /\ run[r].n >= BatchSize /\ run[r].lost > 0
        /\ \E id \in DOMAIN run[r].made : ~IsNull(table[id].hidden_answer)
        /\ \E id \in DOMAIN table : ~IsNull(table[id].good_graph) /\ IsNull(table[id].hidden_answer)

\* a sample the stage can advance: its input blob is present and valid, and
\* its output is not set
Advanceable(id) ==
    \/ IsNull(table[id].good_graph) /\ Valid(table[id].raw)
    \/ /\ ~IsNull(table[id].good_graph) /\ HasImage(Val(table[id].good_graph))
       /\ IsNull(table[id].hidden_answer)

\* uuid4() has handed out the identifiers of the model
OutOfIds == nextUuid > MaxUuid

\* C12: when preprocess_all and explain_all are rerun again and again, each
\* rerun after the run before it has ended, every sample whose input blob is
\* present and valid eventually has good_graph and hidden_answer set, the
\* other samples' blobs being missing, corrupt or failing.
C12_RerunProgress == <>[](OutOfIds \/ \A id \in DOMAIN table : ~Advanceable(id))

\* C13: within one run of preprocessing (either preprocessor) or of
\* perturbation no input reference is fetched and transformed twice: a key
\* is attempted at most once, failed or not.
C13_OncePerKey ==
    \A r \in Slots :
        run[r].stage \in {"preprocess", "attack", "legacy"} =>
            \A k, l \in 1..Len(run[r].seen) : run[r].seen[k] = run[r].seen[l] => k = l

\* the lowest id among the samples an item of a run stands for
FirstId(stage, it) ==
    CASE stage = "preprocess" -> MinOf({id \in DOMAIN table : table[id].raw = it})
      [] stage = "attack"     -> MinOf({id \in DOMAIN table : table[id].good_graph = Some(it)})
      [] OTHER                -> it[1]

Ascending(rec) ==
    \A k, l \in 1..Len(rec.items) :
        k < l => FirstId(rec.stage, rec.items[k]) < FirstId(rec.stage, rec.items[l])

\* C14: the items a stage run selects are in ascending sample-id order, for
\* every stage.
C14_AscendingIds ==
    [][\A r \in Slots :
         run[r].pc # "loop" /\ run'[r].pc = "loop" /\ run'[r].i = 1 => Ascending(run'[r])]_vars

\* C15: a run given a positive limit max_rows = k sets its stage's output
\* column on at most k samples.
C15_RowLimit ==
    \A r \in Slots : run[r].max_rows > 0 => Written(run[r]) <= run[r].max_rows

\* the errors of the blob store and of the database
StoreErrors == {"KeyError", "DeadlockDetected"}

\* C16: a run that stopped on a store error has reported its counters to
\* its caller.
C16_CountersReported ==
    \A r \in Slots :
        run[r].pc = "failed" /\ run[r].err \in StoreErrors => ~IsNull(run[r].report)

Abs(n) == IF n < 0 THEN 0 - n ELSE n

\* out is a TARGET_SIZE x TARGET_SIZE RGB image whose content lies in the
\* centred rectangle meta describes
Normalized(out, meta) ==
    LET T == TARGET_SIZE
        ox == meta.offset_x
        oy == meta.offset_y
        rw == meta.resized_w
        rh == meta.resized_h
    IN  /\ out.ok /\ out.mode = "RGB" /\ out.w = T /\ out.h = T
        /\ ox = (T - rw) \div 2 /\ oy = (T - rh) \div 2
        /\ 0 <= ox /\ ox + rw <= T /\ 0 <= oy /\ oy + rh <= T
        /\ Abs((T - rw - ox) - ox) <= 1 /\ Abs((T - rh - oy) - oy) <= 1
        /\ \A p \in out.px :
              /\ ox <= p.box[1] /\ p.box[3] <= ox + rw
              /\ oy <= p.box[2] /\ p.box[4] <= oy + rh

\* C18: whenever preprocess_single returns a result its image is
\* TARGET_SIZE x TARGET_SIZE RGB with the resized content centred inside the
\* canvas, the paddings of opposite sides differing by at most one pixel;
\* and every good_graph preprocessing wrote names such an image.
C18_OutputGeometry ==
    /\ validate_image(probe) /\ preprocess_single(probe).st = "ok" =>
          Normalized(preprocess_single(probe).image_bytes, preprocess_single(probe).meta)
    /\ \A id \in DOMAIN table :
          ~IsNull(table[id].good_graph) /\ HasImage(Val(table[id].good_graph)) =>
             Normalized(blobs[Val(table[id].good_graph)], Val(table[id].preprocess_meta))

\* a good_graph written for an image whose vertical padding is odd
C18_Witness ==
    \E id \in DOMAIN table :
        /\ ~IsNull(table[id].good_graph) /\ HasImage(Val(table[id].good_graph))
        /\ (TARGET_SIZE - Val(table[id].preprocess_meta).resized_h) % 2 = 1
        /\ blobs[Val(table[id].good_graph)].px # {}

\* w x h is scaled to rw x rh by the one factor TARGET_SIZE / max(w, h), each
\* side rounded to a nearest pixel; scale is that factor in millionths
Scaled(w, h, rw, rh, scale) ==
    LET T == TARGET_SIZE
        m == Max(w, h)
    IN  /\ Max(rw, rh) = T
        /\ 2 * Abs(rw * m - w * T) <= m
        /\ 2 * Abs(rh * m - h * T) <= m
        /\ 2 * Abs(scale * m - T * 1000000) <= m

\* C19: for every image of width w and height h entering letterbox_resize,
\* max(resized_w, resized_h) = TARGET_SIZE and each resized side is the side
\* scaled by TARGET_SIZE / max(w, h) and rounded to the nearest pixel.
C19_AspectPreserved ==
    /\ validate_image(probe) /\ letterbox_resize(probe, TARGET_SIZE).st = "ok" =>
          LET meta == letterbox_resize(probe, TARGET_SIZE).meta
          IN  Scaled(probe.w, probe.h, meta.resized_w, meta.resized_h, meta.scale)
    /\ \A id \in DOMAIN table :
          ~IsNull(table[id].preprocess_meta) =>
             LET meta == Val(table[id].preprocess_meta)
                 cb == meta.crop_box
             IN  Scaled(cb[3] - cb[1], cb[4] - cb[2], meta.resized_w, meta.resized_h, meta.scale)

\* a sample whose image was cropped to a box that is not square
C19_Witness ==
    \E id \in DOMAIN table :
        /\ ~IsNull(table[id].preprocess_meta)
        /\ LET meta == Val(table[id].preprocess_meta)
               cb == meta.crop_box
           IN  /\ cb # <<0, 0, probe.w, probe.h>>
               /\ meta.resized_w < meta.resized_h

\* C20: no failure of a normalisation step after validation escapes
\* preprocess_single as an exception: no preprocessing run is aborted by one.
C20_NoEscape == \A r \in Slots : run[r].err # "ValueError"

\* the steps main.py executed, and those that returned a code other than 0
Executed == {c[1] : c \in orch.codes}
FailedSteps == {c[1] : c \in {d \in orch.codes : d[2] # 0}}

\* the summary has exactly one line per executed step, saying whether it passed
SummaryComplete ==
    /\ ~IsNull(orch.summary)
    /\ LET lines == Val(orch.summary)
       IN  /\ {lines[i][1] : i \in DOMAIN lines} = Executed
           /\ Len(lines) = Cardinality(Executed)
           /\ \A i \in DOMAIN lines : lines[i][2] = (lines[i][1] \notin FailedSteps)

\* C17: when main.py has exited, its exit status is 0 iff every step it
\* executed returned 0, and, unless the clean step failed, the summary has
\* one pass/fail line per executed step; when the clean step fails main.py
\* exits 1 without a summary.
C17_ExitStatus ==
    orch.pc = "done" =>
        /\ (Val(orch.exit) = 0) = (FailedSteps = {})
        /\ IF "clean" \in FailedSteps THEN IsNull(orch.summary) /\ Executed = {"clean"}
           ELSE SummaryComplete

\* main.py has exited after an importer failed and the other steps passed
C17_Witness ==
    /\ orch.pc = "done"
    /\ FailedSteps = {"ChartX"}
    /\ Executed = Steps
    /\ Val(orch.exit) = 1

\* C17 as stated: when main.py has exited, its exit status is 0 iff every
\* executed step returned 0, and the summary lists one result per executed step.
C17_ExitStatusSummary ==
    orch.pc = "done" =>
        /\ (Val(orch.exit) = 0) = (FailedSteps = {})
        /\ SummaryComplete

\* the columns of samples, and those each stage's UPDATE sets
Columns == DOMAIN NewRow("", "", 0, Null, Null, 0, "")
WritesOf(stage) ==
    CASE stage = "preprocess" -> {"good_graph", "preprocess_meta", "original_width",
                                  "original_height"}
      [] stage = "attack"     -> {"adversarial_graph"}
      [] stage = "explain"    -> {"hidden_answer"}
      [] stage = "evaluate"   -> {"output_answer", "attack_succeeded"}
      [] OTHER                -> {}

\* C21: a step of a stage run leaves the set of samples as it is, and changes
\* in the committed table only columns its stage writes: good_graph,
\* preprocess_meta, original_width, original_height for preprocessing,
\* adversarial_graph for perturbation, hidden_answer for explanation,
\* output_answer and attack_succeeded for evaluation.
C21_Frame ==
    [][\A r \in Slots :
          run'[r] # run[r] =>
             /\ DOMAIN table' = DOMAIN table
             /\ \A id \in DOMAIN table : \A c \in Columns :
                   table'[id][c] # table[id][c] => c \in WritesOf(run'[r].stage)]_vars

\* runs of all four stages have written their columns to one sample
C21_Witness ==
    \E id \in DOMAIN table :
        /\ ~IsNull(table[id].good_graph) /\ ~IsNull(table[id].adversarial_graph)
        /\ ~IsNull(table[id].output_answer)
        /\ \E r \in Slots : run[r].stage = "evaluate" /\ run[r].pc = "done" /\ run[r].n > 0

\* C22: every graph type an importer computes or stores is a member of
\* GraphType, and a chart type its map does not list gives OTHER: in the rows
\* import_chartbench inserts (question is the index of the dataset row), and
\* in the value chart_type_to_graph_type and map_graph_type returned for the
\* latest row of import_chartx and import_chartqax.
C22_MappingTotal ==
    /\ \A id \in DOMAIN (imp.pend @@ table) :
          LET row == (imp.pend @@ table)[id]
          IN  /\ row.graph_type \in GraphType
              /\ row.source = "ChartBench"
                 /\ ChartOf(imp.ds[row.question]) \notin DOMAIN CHARTBENCH_TYPE_MAP
                    => row.graph_type = "OTHER"
    /\ ~IsNull(cx.graph_type) =>
          /\ Val(cx.graph_type) \in GraphType
          /\ Val(cx.chart_type) \notin DOMAIN CHART_TYPE_TO_GRAPH_TYPE
                => Val(cx.graph_type) = "OTHER"
    /\ ~IsNull(qx.graph_type) =>
          /\ Val(qx.graph_type) \in GraphType
          /\ StripIndex(Val(qx.chart_type)) \notin {"two_col", "multi_col"}
                => Val(qx.graph_type) = "OTHER"

\* rows of chart types none of the maps lists have been read by all three
\* importers, and the one of import_chartbench is in the table
C22_Witness ==
    /\ \E id \in DOMAIN table :
          /\ ChartOf(imp.ds[table[id].question]) = "violin"
          /\ table[id].graph_type = "OTHER"
    /\ cx.chart_type = Some("violin")
    /\ qx.chart_type = Some("h_bar")

\* C26: import_chartx tolerates MAX_FAILURES failed rows: it ends with
\* RuntimeError only after more than MAX_FAILURES rows have failed, and a run
\* that has ended with no more failures than that has read every row, unless
\* its row limit was reached.
C26_BudgetBoundary ==
    /\ cx.pc = "failed" => cx.failures > MAX_FAILURES
    /\ cx.pc = "done" /\ cx.failures <= MAX_FAILURES =>
          \/ cx.i = cx.rows + 1
          \/ ~IsNull(cx.max_rows) /\ cx.processed >= Val(cx.max_rows)

\* cb is the crop box of an RGB image w wide and h high whose pixels below
\* the whitespace threshold are dark: the full image when there are none, else
\* a non-empty box inside the image that holds every one of them and whose
\* sides are the margin away from the outermost of them, or on the image's
\* border where that is nearer
CropBoxOf(cb, w, h, dark) ==
    IF dark = {} THEN cb = <<0, 0, w, h>>
    ELSE LET margin == WHITESPACE_CROP_MIN_BORDER
             left == MinOf({p.box[1] : p \in dark})
             top == MinOf({p.box[2] : p \in dark})
             right == MaxOf({p.box[3] : p \in dark})
             bottom == MaxOf({p.box[4] : p \in dark})
         IN  /\ 0 <= cb[1] /\ cb[1] < cb[3] /\ cb[3] <= w
             /\ 0 <= cb[2] /\ cb[2] < cb[4] /\ cb[4] <= h
             /\ \A p \in dark : /\ cb[1] <= p.box[1] /\ p.box[3] <= cb[3]
                                /\ cb[2] <= p.box[2] /\ p.box[4] <= cb[4]
             /\ cb[1] = left - margin \/ (cb[1] = 0 /\ left < margin)
             /\ cb[2] = top - margin \/ (cb[2] = 0 /\ top < margin)
             /\ cb[3] = right + margin \/ (cb[3] = w /\ w < right + margin)
             /\ cb[4] = bottom + margin \/ (cb[4] = h /\ h < bottom + margin)

\* C23: the crop box auto_crop_whitespace returns for an RGB image, and the
\* one preprocessing records for a sample, is the full image when no pixel is
\* below the whitespace threshold, and otherwise the bounding box of the
\* pixels below it widened by the margin on every side and clamped to the
\* image: non-empty, inside the image, holding every such pixel.
C23_CropBox ==
    /\ validate_image(probe) =>
          CropBoxOf(auto_crop_whitespace(convert_to_rgb(probe))[2], probe.w, probe.h,
                    {p \in probe.px : p.v < WHITESPACE_CROP_THRESHOLD})
    /\ \A id \in DOMAIN table :
          ~IsNull(table[id].preprocess_meta) =>
             CropBoxOf(Val(table[id].preprocess_meta).crop_box, probe.w, probe.h,
                       {p \in probe.px : p.v < WHITESPACE_CROP_THRESHOLD})

\* a sample whose image has a pale pixel outside its crop box and a dark one
\* inside, the box being the margin away from it on every side
C23_Witness ==
    \E id \in DOMAIN table :
        /\ ~IsNull(table[id].preprocess_meta)
        /\ LET cb == Val(table[id].preprocess_meta).crop_box
           IN  /\ cb[1] > 0 /\ cb[2] > 0 /\ cb[3] < probe.w /\ cb[4] < probe.h
               /\ cb[3] - cb[1] = 2 * WHITESPACE_CROP_MIN_BORDER + 1
        /\ \E p \in probe.px : p.v >= WHITESPACE_CROP_THRESHOLD

\* the errors a store raises other than the missing key
Unexpected == {ErrorOf(call) : call \in StoreCalls} \cup {"DeadlockDetected"}

\* C24: when a store raises an unexpected error under a stage run, the run
\* does not count it as a skipped item and processes no further item; the
\* error reaches the caller in place of the counters; the committed table is
\* left as it is and the run's uncommitted updates are discarded.
C24_StoreFailurePropagates ==
    [][\A r \in Slots :
          run[r].pc = "loop" /\ run[r].err = "" /\ run'[r].err \in Unexpected =>
             /\ run'[r].pc = "failed"
             /\ run'[r].skipped = run[r].skipped
             /\ run'[r].i = run[r].i /\ run'[r].n = run[r].n
             /\ IsNull(run'[r].report)
             /\ table' = table
             /\ run'[r].tx = Empty
             /\ \A id \in DOMAIN run[r].tx : table'[id] # run[r].tx[id]]_vars

\* a store failed under a run after it had committed a batch and made a
\* further update, which is discarded
C24_Witness ==
    \E r \in Slots :
        /\ run[r].pc = "failed" /\ run[r].err \in Unexpected
        /\ run[r].lost > 0
        /\ run[r].n >= BatchSize
        /\ \E id \in DOMAIN table : ~IsNull(table[id].hidden_answer)
        /\ \E id \in DOMAIN table :
              ~IsNull(table[id].good_graph) /\ IsNull(table[id].hidden_answer)

\* C25: in main.py an importer is started only when imports are not skipped
\* and, if cleaning was requested, after the clean step has ended with code
\* 0; after a failed clean step no importer and no preprocess step is started
\* and main.py exits with status 1; no importer is waited for before all
\* three are started; the preprocess step is started only when every
\* importer started has ended.
C25_Ordering ==
    /\ orch.spawned # {} =>
          ~orch.skip_import /\ (orch.clean => <<"clean", 0>> \in orch.codes)
    /\ "clean" \in FailedSteps =>
          /\ orch.spawned = {} /\ "preprocess" \notin Executed
          /\ orch.pc = "done" /\ orch.exit = Some(1)
    /\ orch.waited > 0 => orch.spawned = {IMPORTERS[i] : i \in DOMAIN IMPORTERS}
    /\ orch.pc = "preprocess" \/ "preprocess" \in Executed =>
          \A name \in orch.spawned : name \in Executed

\* main.py is about to start the preprocess step after a clean step and the
\* three importers, the last of which to be started ended first
C25_Witness ==
    /\ orch.pc = "preprocess"
    /\ orch.clean
    /\ Cardinality(orch.spawned) = Len(IMPORTERS)
    /\ <<"ChartQA-X", 1>> \in orch.codes

\* the columns preprocessing sets
PreprocessCols == WritesOf("preprocess")

\* C27: in every committed table state reached through import_chartbench of
\* the data_pipeline and runs of the stages, each sample has good_graph,
\* preprocess_meta, original_width and original_height all set or all null.
C27_SetTogether ==
    ~imp.sized =>
       \A id \in DOMAIN table :
          \/ \A c \in PreprocessCols : ~IsNull(table[id][c])
          \/ \A c \in PreprocessCols : IsNull(table[id][c])

\* after a preprocessing run one sample has the four columns set and another,
\* whose image is corrupt, has them null
C27_Witness ==
    /\ ~imp.sized
    /\ \E r \in Slots : run[r].stage = "preprocess" /\ run[r].pc = "done" /\ run[r].skipped > 0
    /\ \E id \in DOMAIN table : \A c \in PreprocessCols : ~IsNull(table[id][c])
    /\ \E id \in DOMAIN table : \A c \in PreprocessCols : IsNull(table[id][c])

\* C28: every identifier in the bucket was generated before now, so the
\* next put_image stores under one not in use, and the content stored under
\* an identifier is the same for as long as the identifier exists.
C28_BlobImmutable ==
    /\ [](\A k \in DOMAIN blobs : k < nextUuid)
    /\ [][\A k \in DOMAIN blobs \cap DOMAIN blobs' : blobs'[k] = blobs[k]]_vars

\* the bucket holds a raw image and images of other content that
\* preprocessing and perturbation stored after it
C28_Witness ==
    \E id \in DOMAIN table :
        /\ ~IsNull(table[id].good_graph) /\ ~IsNull(table[id].adversarial_graph)
        /\ {table[id].raw, Val(table[id].good_graph), Val(table[id].adversarial_graph)}
              \subseteq DOMAIN blobs
        /\ blobs[Val(table[id].good_graph)] # blobs[table[id].raw]
        /\ Val(table[id].adversarial_graph) > Val(table[id].good_graph)

\* C29: an explanation run that overlaps a perturbation or evaluation run
\* writes no column the other writes, neither run is aborted by the
\* database, and once the explanation run has ended normally every sample it
\* selected has the hidden_answer it computed, as when the stages run one
\* after the other.
C29_IndependentCommute ==
    /\ \A pair \in Independent : \A s, t \in pair : s # t => WritesOf(s) \cap WritesOf(t) = {}
    /\ \A r \in Slots : run[r].err # "DeadlockDetected"
    /\ \A r \in Slots :
          run[r].stage = "explain" /\ run[r].pc = "done" =>
             \A sid \in DOMAIN run[r].made \cap DOMAIN table :
                table[sid].hidden_answer = Some(run[r].made[sid])

\* the sample's good_graph is null and its raw blob is missing or does not
\* validate
Stuck(id) == IsNull(table[id].good_graph) /\ ~Valid(table[id].raw)

\* C30: a sample whose raw blob is missing or fails validation keeps
\* good_graph null through every step, and so has adversarial_graph,
\* hidden_answer and output_answer null; every preprocessing run selects its
\* raw_graph, and has fetched it by the time the run ends.
C30_StuckRetried ==
    /\ [](\A id \in DOMAIN table :
             Stuck(id) => /\ IsNull(table[id].adversarial_graph)
                          /\ IsNull(table[id].hidden_answer)
                          /\ IsNull(table[id].output_answer))
    /\ [](\A r \in Slots :
             run[r].stage = "preprocess" /\ run[r].pc = "loop" =>
                \A id \in DOMAIN table :
                   Stuck(id) => \E k \in DOMAIN run[r].items : run[r].items[k] = table[id].raw)
    /\ [][/\ \A id \in DOMAIN table \cap DOMAIN table' :
                Stuck(id) /\ blobs' = blobs => IsNull(table'[id].good_graph)
          /\ \A r \in Slots :
                run[r].stage = "preprocess" /\ run[r].pc = "loop" /\ run'[r].pc # "loop" =>
                   \A id \in DOMAIN table :
                      Stuck(id) => \E k \in DOMAIN run'[r].seen : run'[r].seen[k] = table[id].raw]_vars

\* the derived blobs a run uploaded that are still in the store
Uploaded(r) ==
    {k \in DOMAIN blobs :
        \E key \in DOMAIN run[r].made :
            \/ run[r].stage = "preprocess" /\ run[r].made[key].ref = k
            \/ run[r].stage = "attack" /\ run[r].made[key] = k}

\* C31: once a preprocessing or perturbation run has ended, normally or not,
\* every blob it uploaded is the good_graph (for preprocessing) or the
\* adversarial_graph (for perturbation) of at least one sample.
C31_NoOrphans ==
    \A r \in Slots :
        run[r].pc \in {"done", "failed"} =>
           \A k \in Uploaded(r) :
              \E id \in DOMAIN table :
                 \/ run[r].stage = "preprocess" /\ table[id].good_graph = Some(k)
                 \/ run[r].stage = "attack" /\ table[id].adversarial_graph = Some(k)

\* the same for the runs that completed normally only
C31_NoOrphansDone ==
    \A r \in Slots :
        run[r].pc = "done" =>
           \A k \in Uploaded(r) :
              \E id \in DOMAIN table :
                 \/ run[r].stage = "preprocess" /\ table[id].good_graph = Some(k)
                 \/ run[r].stage = "attack" /\ table[id].adversarial_graph = Some(k)

\* what the updates a completed run issued left in the table: for every item
\* it processed, the value it wrote is the committed value of the column
Persisted(rec) ==
    CASE rec.stage = "preprocess" ->
            \A key \in DOMAIN rec.made :
               /\ \E id \in DOMAIN table : table[id].good_graph = Some(rec.made[key].ref)
               /\ \A id \in DOMAIN table : table[id].raw = key => ~IsNull(table[id].good_graph)
      [] rec.stage = "attack" ->
            \A key \in DOMAIN rec.made :
               \E id \in DOMAIN table : table[id].adversarial_graph = Some(rec.made[key])
      [] rec.stage = "explain" ->
            \A sid \in DOMAIN rec.made : table[sid].hidden_answer = Some(rec.made[sid])
      [] rec.stage = "evaluate" ->
            \A sid \in DOMAIN rec.made :
               /\ table[sid].output_answer = Some(rec.made[sid][1])
               /\ table[sid].attack_succeeded = Some(rec.made[sid][2])
      [] OTHER -> TRUE

\* C32: when a stage run completes normally every update it issued is
\* committed: the step that ends its loop makes the row versions of the open
\* transaction, the last partial batch, the table's rows; afterwards the run
\* has no uncommitted update and the values it wrote are in the table.
C32_FinalBatchCommitted ==
    /\ [](\A r \in Slots :
             run[r].pc = "done" => run[r].tx = Empty /\ run[r].unc = 0 /\ Persisted(run[r]))
    /\ [][\A r \in Slots :
             run[r].pc = "loop" /\ run'[r].pc = "done" =>
                \A id \in DOMAIN run[r].tx : table'[id] = run[r].tx[id]]_vars

\* an evaluation run that completed with a last batch of fewer than BatchSize
\* items, whose answers are in the table
C32_Witness ==
    \E r \in Slots :
        /\ run[r].pc = "done" /\ run[r].stage = "evaluate"
        /\ run[r].n % BatchSize # 0
        /\ \E sid \in DOMAIN run[r].made : table[sid].output_answer = Some(run[r].made[sid][1])

\* the samples whose good_graph is a blob the run uploaded
ChangedBy(rec) ==
    {id \in DOMAIN table :
        \E key \in DOMAIN rec.made : table[id].good_graph = Some(rec.made[key].ref)}

\* C33: with one process at a time, a preprocess_all run that completed
\* reports unique_images + skipped equal to the number of raw_graph values it
\* selected and rows_updated equal to the number of samples whose good_graph
\* it changed from null to a value; and each of its steps adds to rows_updated
\* the number of samples whose good_graph that step set.
C33_PreprocessCounters ==
    /\ [](\A r \in Slots :
             run[r].stage = "preprocess" /\ run[r].pc = "done" =>
                LET rep == Val(run[r].report)
                IN  /\ rep.processed + rep.skipped = Len(run[r].items)
                    /\ Card(ItemSet(run[r])) = Len(run[r].items)
                    /\ rep.rows_updated = Card(ChangedBy(run[r])))
    /\ [][\A r \in Slots :
             run[r].stage = "preprocess" /\ run[r].pc = "loop" =>
                run'[r].rows_updated - run[r].rows_updated =
                   Card({id \in DOMAIN table :
                            /\ IsNull((run[r].tx @@ table)[id].good_graph)
                            /\ ~IsNull((run'[r].tx @@ table')[id].good_graph)})]_vars

\* a completed run that skipped an image and set the good_graph of others
C33_Witness ==
    \E r \in Slots :
        /\ run[r].stage = "preprocess" /\ run[r].pc = "done"
        /\ Val(run[r].report).skipped > 0
        /\ Val(run[r].report).rows_updated > 1
        /\ ChangedBy(run[r]) # {}

\* the rows the ChartBench import has inserted, committed or not; the
\* question of a row is the index of its dataset row
Inserted ==
    LET t == Commit(table, imp.pend)
    IN  {t[id] : id \in {i \in DOMAIN t : t[i].source = "ChartBench"}}
PathOf(row) == imp.ds[row.question]
MissingBefore(i) == {k \in 1..(i - 1) : ~FileExists(imp.ds[k])}

\* C34: in a ChartBench import run the rows inserted for one image path carry
\* one raw_graph, a step uploads a blob only for a path not uploaded before,
\* and then exactly one; a row whose file is missing adds one to skipped and
\* inserts nothing; on completion rows_inserted + rows_skipped is the number
\* of rows considered.
C34_IngestionDedup ==
    /\ [](/\ \A a, b \in Inserted : PathOf(a) = PathOf(b) => a.raw = b.raw
          /\ \A a \in Inserted : FileExists(PathOf(a))
          /\ imp.pc = "loop" => imp.skipped = Card(MissingBefore(imp.i))
          /\ imp.pc = "done" => imp.inserted + imp.skipped = Len(imp.ds)
          /\ imp.inserted = Card(Inserted))
    /\ [][imp.pc = "loop" /\ imp' # imp /\ imp.i <= Len(imp.ds) =>
             LET p == imp.ds[imp.i]
                 new == DOMAIN blobs' \ DOMAIN blobs
             IN  /\ Card(new) <= 1
                 /\ new # {} <=> IsNull(imp.uploaded[p]) /\ FileExists(p)
                 /\ ~FileExists(p) =>
                       /\ imp'.skipped = imp.skipped + 1
                       /\ imp'.inserted = imp.inserted
                       /\ Commit(table', imp'.pend) = Commit(table, imp.pend)]_vars

\* a completed import that skipped a row and inserted two rows of one path
C34_Witness ==
    /\ imp.pc = "done"
    /\ imp.skipped > 0
    /\ \E a, b \in DOMAIN table :
          /\ a # b /\ table[a].source = "ChartBench" /\ table[b].source = "ChartBench"
          /\ PathOf(table[a]) = PathOf(table[b])
          /\ table[a].raw = table[b].raw

ImporterSet == {IMPORTERS[i] : i \in DOMAIN IMPORTERS}

\* C36: in main.py, once an importer was started, main goes past the imports
\* only with all three importers started, ended and waited for, whatever
\* their return codes; unless preprocessing is skipped it reaches the summary
\* only after the preprocess step has run; and when an importer failed main
\* exits with status 1, after the preprocess step.
C36_ImporterFailureTolerated ==
    /\ orch.spawned # {} /\ orch.pc \in {"preprocess", "summary", "done"} =>
          /\ orch.spawned = ImporterSet
          /\ ImporterSet \subseteq Executed
          /\ orch.waited = Len(IMPORTERS)
    /\ orch.spawned # {} /\ orch.pc \in {"summary", "done"} /\ ~orch.skip_preprocess =>
          "preprocess" \in Executed
    /\ "preprocess" \in Executed => orch.spawned \subseteq Executed
    /\ ~IsNull(orch.exit) => orch.pc = "done"
    /\ orch.pc = "done" /\ FailedSteps \cap ImporterSet # {} => orch.exit = Some(1)

\* main.py has exited with status 1 after two importers failed, one of them
\* ended by a signal, and the preprocess step ran and passed
C36_Witness ==
    /\ orch.pc = "done"
    /\ FailedSteps = {"ChartBench", "ChartQA-X"}
    /\ <<"ChartBench", 0 - 9>> \in orch.codes
    /\ <<"preprocess", 0>> \in orch.codes
    /\ orch.exit = Some(1)

\* the rows of source ChartX in the committed table, and the dataset rows with
\* a readable image the import has been through
ChartXRows == {id \in DOMAIN table : table[id].source = "ChartX"}
ChartXRead == {j \in 1..Min(cx.i - 1, cx.rows) : Readable(cx.kind, j)}

C37_CountedAreCommitted ==
    /\ cx.processed = Card(ChartXRows)
    /\ ~IsNull(cx.max_rows) => Card(ChartXRows) <= Val(cx.max_rows)

\* a ChartX import has counted a row in processed
C37_Processed == cx.processed > 0

====
